---------------------------- MODULE Spec2Model ----------------------------
(***************************************************************************)
(* The source reliability scoring service of services/local: the scoring  *)
(* router (routers/score.py) over the RSP cache held by the application    *)
(* configuration (app.py).                                                 *)
(*                                                                         *)
(* Text that the code inspects or rewrites (domains, URLs, labels, notes,  *)
(* citation types, publishers, contexts) is a sequence of one-character    *)
(* strings, so that lower(), split(), join(), replace() and the substring  *)
(* test `in` are computed character by character as Python computes them.  *)
(* Text that the code only passes along (advisories, error details) is a   *)
(* plain string.                                                           *)
(***************************************************************************)
EXTENDS Integers, Sequences, FiniteSets, TLC

VARIABLES rsp_cache, now_year, inflight, response, frame, earlier, health

vars == <<rsp_cache, now_year, inflight, response, frame, earlier, health>>

-----------------------------------------------------------------------------
(* Python values                                                           *)

\* Python's None where a string may stand. Every string of the model holds
\* one-character elements only, so no string equals it.
None == <<"None">>

\* Python truthiness of an Optional[str]: None and '' are falsy.
Truthy(s) == s /= None /\ s /= <<>>

UpperCase == <<"A","B","C","D","E","F","G","H","I","J","K","L","M",
               "N","O","P","Q","R","S","T","U","V","W","X","Y","Z">>

LowerCase == <<"a","b","c","d","e","f","g","h","i","j","k","l","m",
               "n","o","p","q","r","s","t","u","v","w","x","y","z">>

Digits == {"0","1","2","3","4","5","6","7","8","9"}

LowerChar(c) ==
    IF \E i \in DOMAIN UpperCase : UpperCase[i] = c
    THEN LowerCase[CHOOSE i \in DOMAIN UpperCase : UpperCase[i] = c]
    ELSE c

\* str.lower()
StrLower(s) == [i \in 1..Len(s) |-> LowerChar(s[i])]

\* s[i:i+len(sub)] == sub, with i counted from 1
MatchesAt(s, sub, i) ==
    /\ i >= 1
    /\ i + Len(sub) - 1 <= Len(s)
    /\ \A k \in 1..Len(sub) : s[i + k - 1] = sub[k]

\* sub in s
StrContains(s, sub) == \E i \in 1..(Len(s) - Len(sub) + 1) : MatchesAt(s, sub, i)

\* s.endswith(sub)
StrEndsWith(s, sub) == MatchesAt(s, sub, Len(s) - Len(sub) + 1)

\* s.find(sub) counted from 1; 0 when sub does not occur
StrFind(s, sub) ==
    IF StrContains(s, sub)
    THEN CHOOSE i \in 1..Len(s) :
            /\ MatchesAt(s, sub, i)
            /\ \A j \in 1..(i - 1) : ~MatchesAt(s, sub, j)
    ELSE 0

\* s[i:] with i counted from 1
StrFrom(s, i) == SubSeq(s, i, Len(s))

\* s.replace(old, ''): every non-overlapping occurrence, left to right
RECURSIVE StrRemoveAll(_, _)
StrRemoveAll(s, old) ==
    LET i == StrFind(s, old)
    IN  IF i = 0 THEN s
        ELSE SubSeq(s, 1, i - 1) \o StrRemoveAll(StrFrom(s, i + Len(old)), old)

\* s.split(sep) for a one-character sep: a list of strings, [''] for ''
RECURSIVE StrSplit(_, _)
StrSplit(s, sep) ==
    LET i == StrFind(s, <<sep>>)
    IN  IF i = 0 THEN <<s>>
        ELSE <<SubSeq(s, 1, i - 1)>> \o StrSplit(StrFrom(s, i + 1), sep)

\* sep.join(parts)
RECURSIVE StrJoin(_, _)
StrJoin(parts, sep) ==
    IF Len(parts) = 0 THEN <<>>
    ELSE IF Len(parts) = 1 THEN parts[1]
    ELSE parts[1] \o <<sep>> \o StrJoin(Tail(parts), sep)

\* dict.get(key) / dict.get(key, default) on a dict kept as a function
DictGet(d, key, default) == IF key \in DOMAIN d THEN d[key] ELSE default

Min(a, b) == IF a <= b THEN a ELSE b
Max(a, b) == IF a >= b THEN a ELSE b


-----------------------------------------------------------------------------
(* urllib.parse.urlparse(url).netloc                                       *)

SchemeChars ==
    {UpperCase[i] : i \in DOMAIN UpperCase} \cup {LowerCase[i] : i \in DOMAIN LowerCase}
        \cup Digits \cup {"+", "-", "."}

Letters ==
    {UpperCase[i] : i \in DOMAIN UpperCase} \cup {LowerCase[i] : i \in DOMAIN LowerCase}

\* The text after "scheme:" when url starts with a scheme, url itself otherwise.
AfterScheme(url) ==
    LET i == StrFind(url, <<":">>)
    IN  IF /\ i > 1
           /\ url[1] \in Letters
           /\ \A k \in 1..(i - 1) : url[k] \in SchemeChars
        THEN StrFrom(url, i + 1)
        ELSE url

\* The authority: what follows a leading "//" up to the first "/", "?" or "#".
Netloc(url) ==
    LET rest == AfterScheme(url)
    IN  IF ~MatchesAt(rest, <<"/", "/">>, 1) THEN <<>>
        ELSE LET body  == StrFrom(rest, 3)
                 stops == {i \in 1..Len(body) : body[i] \in {"/", "?", "#"}}
                 stop  == IF stops = {} THEN Len(body) + 1
                          ELSE CHOOSE i \in stops : \A j \in stops : i <= j
             IN  SubSeq(body, 1, stop - 1)

\* parsed.netloc.lower().replace('www.', '')
HostOf(url) == StrRemoveAll(StrLower(Netloc(url)), <<"w","w","w",".">>)

-----------------------------------------------------------------------------
(* The RSP cache a start can load                                          *)

\* rsp_cache.json is missing or unreadable: _load_json_file returns {}.
EmptyCache == [d \in {} |-> [label |-> None]]

SampleEntries ==
    << <<<<"n","y","t","i","m","e","s",".","c","o","m">>,   [label |-> <<"g","e","n","e","r","a","l","l","y"," ","r","e","l","i","a","b","l","e">>, notes |-> <<"N","e","w","s","p","a","p","e","r"," ","o","f"," ","r","e","c","o","r","d">>]>>,
       <<<<"b","b","c",".","c","o",".","u","k">>,     [label |-> <<"R","e","l","i","a","b","l","e">>, notes |-> <<"P","u","b","l","i","c"," ","b","r","o","a","d","c","a","s","t","e","r">>]>>,
       <<<<"e","x","a","m","p","l","e",".","c","o","m">>,   [label |-> <<"m","i","x","e","d">>, notes |-> <<"V","a","r","i","e","s">>]>>,
       <<<<"b",".","e","x","a","m","p","l","e",".","c","o","m">>, [label |-> <<"u","n","r","e","l","i","a","b","l","e">>, notes |-> <<"S","e","c","t","i","o","n"," ","b">>]>>,
       <<<<"m","e","d","i","u","m",".","c","o","m">>,    [label |-> <<"b","l","a","c","k","l","i","s","t","e","d">>, notes |-> <<>>]>>,
       <<<<"p","u","b","m","e","d",".","g","o","v">>,    [label |-> <<"G","e","n","e","r","a","l","l","y"," ","R","e","l","i","a","b","l","e">>, notes |-> <<"I","n","d","e","x">>]>>,
       <<<<"n","o","n","o","t","e","s",".","o","r","g">>,   [label |-> <<"r","e","l","i","a","b","l","e">>]>>,
       <<<<"w","e","i","r","d",".","i","o">>,      [label |-> <<"q","u","e","s","t","i","o","n","a","b","l","e">>, notes |-> <<"O","d","d"," ","l","a","b","e","l">>]>>,
       <<<<"b","l","o","g","s","p","a","m",".","i","n","f","o">>, [label |-> <<"d","e","p","r","e","c","a","t","e","d">>, notes |-> <<"R","f","C">>]>>,
       <<<<"f","o","r","b","e","s",".","c","o","m">>,    [label |-> <<"c","o","n","t","e","x","t","-","d","e","p","e","n","d","e","n","t">>, notes |-> <<"C","o","n","t","r","i","b","u","t","o","r","s">>]>>,
       <<<<"t","a","b","l","o","i","d",".","c","o">>,    [label |-> <<"g","e","n","e","r","a","l","l","y"," ","u","n","r","e","l","i","a","b","l","e">>, notes |-> <<"T","a","b","l","o","i","d">>]>>,
       <<<<"l","i","s","t","e","d",".","n","e","t">>,    [label |-> <<"U","N","K","N","O","W","N">>, notes |-> <<"N","o"," ","c","o","n","s","e","n","s","u","s">>]>> >>

SampleCache ==
    [d \in {SampleEntries[i][1] : i \in DOMAIN SampleEntries} |->
        SampleEntries[CHOOSE i \in DOMAIN SampleEntries : SampleEntries[i][1] = d][2]]

Caches == {EmptyCache, SampleCache}

\* The database after an administrative update of the curated ratings:
\* b.example.com has lost its record, bbc.co.uk has been rated anew, and
\* news.bbc.co.uk and nowhere.net have records of their own.
ReloadedCache ==
    [d \in (DOMAIN SampleCache \ {<<"b",".","e","x","a","m","p","l","e",".","c","o","m">>})
              \cup {<<"n","e","w","s",".","b","b","c",".","c","o",".","u","k">>, <<"n","o","w","h","e","r","e",".","n","e","t">>} |->
        CASE d = <<"b","b","c",".","c","o",".","u","k">> -> [label |-> <<"m","i","x","e","d">>, notes |-> <<"D","o","w","n","g","r","a","d","e","d">>]
          [] d = <<"n","e","w","s",".","b","b","c",".","c","o",".","u","k">> -> [label |-> <<"r","e","l","i","a","b","l","e">>, notes |-> <<"N","e","w","s"," ","d","e","s","k">>]
          [] d = <<"n","o","w","h","e","r","e",".","n","e","t">> -> [label |-> <<"d","e","p","r","e","c","a","t","e","d">>, notes |-> <<"S","p","a","m">>]
          [] OTHER -> SampleCache[d]]

\* The snapshots config.rsp_cache can refer to.
Snapshots == Caches \cup {ReloadedCache}

-----------------------------------------------------------------------------
(* The RSP lookup                                                          *)

label_scores ==
    << <<<<"g","e","n","e","r","a","l","l","y"," ","r","e","l","i","a","b","l","e">>, 85>>,
       <<<<"r","e","l","i","a","b","l","e">>, 80>>,
       <<<<"m","i","x","e","d">>, 60>>,
       <<<<"g","e","n","e","r","a","l","l","y"," ","u","n","r","e","l","i","a","b","l","e">>, 35>>,
       <<<<"u","n","r","e","l","i","a","b","l","e">>, 25>>,
       <<<<"d","e","p","r","e","c","a","t","e","d">>, 15>>,
       <<<<"b","l","a","c","k","l","i","s","t","e","d">>, 0>>,
       <<<<"c","o","n","t","e","x","t","-","d","e","p","e","n","d","e","n","t">>, 65>>,
       <<<<"u","n","k","n","o","w","n">>, 50>> >>

\* label_scores.get(key, 50)
LabelScoresGet(key) ==
    IF \E i \in DOMAIN label_scores : label_scores[i][1] = key
    THEN label_scores[CHOOSE i \in DOMAIN label_scores : label_scores[i][1] = key][2]
    ELSE 50

\* Faulty variant of rsp_label_to_score: the label is looked up as stored,
\* without lower().
rsp_label_to_score_case_sensitive(label) == LabelScoresGet(label)

rsp_label_to_score(label) == LabelScoresGet(StrLower(label))

\* An exception leaving a function: the type raised, nothing returned.
Raised(exc) == [exc |-> exc]

\* The value returned by get_rsp_rating.
RspInfo(label, notes, base_score) ==
    [exc |-> "none", label |-> label, notes |-> notes, base_score |-> base_score]

\* The record of an exact key.
ExactRating(rsp_entry) ==
    RspInfo(rsp_entry["label"],
            DictGet(rsp_entry, "notes", None),
            rsp_label_to_score(rsp_entry["label"]))

\* The record of a parent domain: None + ' (parent domain)' is a TypeError.
ParentRating(rsp_entry) ==
    LET notes == DictGet(rsp_entry, "notes", None)
    IN  IF notes = None THEN Raised("TypeError")
        ELSE RspInfo(rsp_entry["label"],
                     notes \o <<" ","(","p","a","r","e","n","t"," ","d","o","m","a","i","n",")">>,
                     rsp_label_to_score(rsp_entry["label"]) - 5)

\* Faulty variant of UnknownRating: the default is scored 0 instead of neutral.
UnknownRating_zero == RspInfo(<<"u","n","k","n","o","w","n">>, <<"N","o","t"," ","f","o","u","n","d"," ","i","n"," ","R","S","P"," ","d","a","t","a","b","a","s","e">>, 0)

UnknownRating == RspInfo(<<"u","n","k","n","o","w","n">>, <<"N","o","t"," ","f","o","u","n","d"," ","i","n"," ","R","S","P"," ","d","a","t","a","b","a","s","e">>, 50)

\* Faulty variant of ParentDomain: the slice is counted from the end, so the
\* shortest suffix is tried first.
ParentDomain_shortest_first(domain_parts, i) ==
    StrJoin(SubSeq(domain_parts, Len(domain_parts) - i + 1, Len(domain_parts)), ".")

\* '.'.join(domain_parts[i:]), i counted from 0 as in the code
ParentDomain(domain_parts, i) ==
    StrJoin(SubSeq(domain_parts, i + 1, Len(domain_parts)), ".")

\* for i in range(i, len(domain_parts)): the first parent that is a key
RECURSIVE ParentLoop(_, _, _)
ParentLoop(domain_parts, i, cache) ==
    IF i >= Len(domain_parts) THEN UnknownRating
    ELSE IF ParentDomain(domain_parts, i) \in DOMAIN cache
         THEN ParentRating(cache[ParentDomain(domain_parts, i)])
         ELSE ParentLoop(domain_parts, i + 1, cache)

\* Faulty variant of get_rsp_rating: the lookup does not stay on one snapshot;
\* the exact test reads the reference it started with and the parent loop
\* reads the reloaded one.
get_rsp_rating_two_snapshots(domain, cache) ==
    IF domain \in DOMAIN cache THEN ExactRating(cache[domain])
    ELSE ParentLoop(StrSplit(domain, "."), 1, ReloadedCache)

get_rsp_rating(domain, cache) ==
    IF domain \in DOMAIN cache THEN ExactRating(cache[domain])
    ELSE ParentLoop(StrSplit(domain, "."), 1, cache)


-----------------------------------------------------------------------------
(* Citation metadata (csl_json)                                            *)
(*                                                                         *)
(* A dict is a function on the keys it holds. 'type', 'publisher', 'DOI'   *)
(* and 'URL' hold strings. 'author' holds [kind, len]: a list of len       *)
(* authors, or a value that is no list. 'issued' holds [shape, year], the  *)
(* shapes of JSON the date code tells apart:                               *)
(*   "not_mapping"    a string, a list, a number or null                   *)
(*   "no_date_parts"  {}                                                   *)
(*   "empty_outer"    {"date-parts": []}                                   *)
(*   "empty_inner"    {"date-parts": [[]]}                                 *)
(*   "year_str"       {"date-parts": [["<year>"]]}                         *)
(*   "year_int"       {"date-parts": [[year]]}                             *)

\* csl_json = None
NoCsl == [is_none |-> TRUE]

\* {}
EmptyDict == [k \in {} |-> None]

\* Python truthiness of an Optional[Dict]: None and {} are falsy.
DictTruthy(d) == d /= NoCsl /\ DOMAIN d /= {}

-----------------------------------------------------------------------------
(* The reliability factors                                                 *)

FactorKeys ==
    {"editorial_control", "independence", "fact_checking", "expertise",
     "transparency", "recency", "source_type_bonus", "context_fit"}

\* Faulty variant of the fresh factors dict: one dict shared by the calls, so
\* a call starts from the factors the earlier call left in it.
ZeroFactors_shared ==
    IF earlier.response.status = 200
    THEN earlier.response.body.reliability_factors
    ELSE [k \in FactorKeys |-> 0]

ZeroFactors == [k \in FactorKeys |-> 0]

\* factors[key] += delta
Add(factors, key, delta) == [factors EXCEPT ![key] = @ + delta]

\* any(entry in s for entry in entries)
AnyIn(entries, s) == \E i \in DOMAIN entries : StrContains(s, entries[i])

academic_markers == <<<<".","e","d","u">>, <<".","a","c",".">>, <<"u","n","i","v","e","r","s","i","t","y">>, <<"c","o","l","l","e","g","e">>>>

major_news ==
    <<<<"n","y","t","i","m","e","s",".","c","o","m">>, <<"w","a","s","h","i","n","g","t","o","n","p","o","s","t",".","c","o","m">>, <<"b","b","c",".","c","o",".","u","k">>, <<"r","e","u","t","e","r","s",".","c","o","m">>,
      <<"a","p",".","o","r","g">>, <<"n","p","r",".","o","r","g">>, <<"t","h","e","g","u","a","r","d","i","a","n",".","c","o","m">>, <<"w","s","j",".","c","o","m">>>>

academic_publishers ==
    <<<<"s","p","r","i","n","g","e","r",".","c","o","m">>, <<"e","l","s","e","v","i","e","r",".","c","o","m">>, <<"w","i","l","e","y",".","c","o","m">>, <<"c","a","m","b","r","i","d","g","e",".","o","r","g">>,
      <<"o","x","f","o","r","d",".","c","o","m">>, <<"j","s","t","o","r",".","o","r","g">>, <<"p","u","b","m","e","d",".","g","o","v">>>>

social_platforms ==
    <<<<"t","w","i","t","t","e","r",".","c","o","m">>, <<"f","a","c","e","b","o","o","k",".","c","o","m">>, <<"i","n","s","t","a","g","r","a","m",".","c","o","m">>, <<"t","i","k","t","o","k",".","c","o","m">>,
      <<"r","e","d","d","i","t",".","c","o","m">>, <<"y","o","u","t","u","b","e",".","c","o","m">>, <<"m","e","d","i","u","m",".","c","o","m">>>>

AcademicRule(d, f) ==
    IF AnyIn(academic_markers, d)
    THEN Add(Add(Add(f, "editorial_control", 15), "expertise", 10), "fact_checking", 10)
    ELSE f

GovernmentRule(d, f) ==
    IF StrEndsWith(d, <<".","g","o","v">>) \/ StrContains(d, <<".","g","o","v",".">>)
    THEN Add(Add(Add(f, "editorial_control", 10), "transparency", 10), "expertise", 5)
    ELSE f

\* Faulty variant of the major-news rule: the deltas of fact_checking and
\* independence are swapped.
MajorNewsRule_swapped(d, f) ==
    IF AnyIn(major_news, d)
    THEN Add(Add(Add(f, "editorial_control", 10), "fact_checking", 5), "independence", 8)
    ELSE f

MajorNewsRule(d, f) ==
    IF AnyIn(major_news, d)
    THEN Add(Add(Add(f, "editorial_control", 10), "fact_checking", 8), "independence", 5)
    ELSE f

AcademicPublisherRule(d, f) ==
    IF AnyIn(academic_publishers, d)
    THEN Add(Add(Add(f, "editorial_control", 15), "expertise", 15), "fact_checking", 10)
    ELSE f

\* Faulty variant of the social-platform rule: independence is cut by 10.
SocialPlatformRule_harsher(d, f) ==
    IF AnyIn(social_platforms, d)
    THEN Add(Add(Add(f, "editorial_control", -15), "fact_checking", -10), "independence", -10)
    ELSE f

SocialPlatformRule(d, f) ==
    IF AnyIn(social_platforms, d)
    THEN Add(Add(Add(f, "editorial_control", -15), "fact_checking", -10), "independence", -5)
    ELSE f

BlogRule(d, f) ==
    IF StrContains(d, <<"b","l","o","g">>) \/ StrContains(d, <<"p","e","r","s","o","n","a","l">>)
    THEN Add(Add(f, "editorial_control", -8), "fact_checking", -5)
    ELSE f

\* Faulty variant of analyze_domain_reliability: the rules are an if/elif
\* chain, only the first rule that matches applies.
analyze_domain_reliability_first_match(domain, factors) ==
    LET domain_lower == StrLower(domain)
    IN  IF AcademicRule(domain_lower, factors) /= factors
        THEN AcademicRule(domain_lower, factors)
        ELSE IF GovernmentRule(domain_lower, factors) /= factors
        THEN GovernmentRule(domain_lower, factors)
        ELSE IF MajorNewsRule(domain_lower, factors) /= factors
        THEN MajorNewsRule(domain_lower, factors)
        ELSE IF AcademicPublisherRule(domain_lower, factors) /= factors
        THEN AcademicPublisherRule(domain_lower, factors)
        ELSE IF SocialPlatformRule(domain_lower, factors) /= factors
        THEN SocialPlatformRule(domain_lower, factors)
        ELSE BlogRule(domain_lower, factors)

analyze_domain_reliability(domain, factors) ==
    LET domain_lower == StrLower(domain)
    IN  BlogRule(domain_lower,
        SocialPlatformRule(domain_lower,
        AcademicPublisherRule(domain_lower,
        MajorNewsRule(domain_lower,
        GovernmentRule(domain_lower,
        AcademicRule(domain_lower, factors))))))

type_scores ==
    << <<<<"a","r","t","i","c","l","e","-","j","o","u","r","n","a","l">>, 15>>,
       <<<<"b","o","o","k">>, 10>>,
       <<<<"c","h","a","p","t","e","r">>, 8>>,
       <<<<"a","r","t","i","c","l","e","-","n","e","w","s","p","a","p","e","r">>, 5>>,
       <<<<"w","e","b","p","a","g","e">>, -5>>,
       <<<<"p","o","s","t","-","w","e","b","l","o","g">>, -10>> >>

\* type_scores.get(source_type, 0)
TypeScoresGet(source_type) ==
    IF \E i \in DOMAIN type_scores : type_scores[i][1] = source_type
    THEN type_scores[CHOOSE i \in DOMAIN type_scores : type_scores[i][1] = source_type][2]
    ELSE 0

\* Faulty variant of the source-type rule: the bonus is added to the factor
\* like every other delta.
SourceTypeRule_accumulating(csl_json, f) ==
    Add(f, "source_type_bonus", TypeScoresGet(DictGet(csl_json, "type", <<>>)))

\* factors['source_type_bonus'] = type_scores.get(csl_json.get('type', ''), 0)
SourceTypeRule(csl_json, f) ==
    [f EXCEPT !["source_type_bonus"] = TypeScoresGet(DictGet(csl_json, "type", <<>>))]

AuthorRule(csl_json, f) ==
    IF /\ "author" \in DOMAIN csl_json
       /\ csl_json["author"].kind = "list"
       /\ csl_json["author"].len > 0
    THEN Add(f, "expertise", Min(csl_json["author"].len * 2, 8))
    ELSE f

PublisherRule(csl_json, f) ==
    LET publisher == StrLower(DictGet(csl_json, "publisher", <<>>))
    IN  IF StrContains(publisher, <<"u","n","i","v","e","r","s","i","t","y">>) \/ StrContains(publisher, <<"a","c","a","d","e","m","i","c">>)
        THEN Add(Add(f, "expertise", 8), "editorial_control", 5)
        ELSE f

DoiRule(csl_json, f) ==
    IF "DOI" \in DOMAIN csl_json
    THEN Add(Add(f, "editorial_control", 10), "transparency", 5)
    ELSE f

\* The if/elif cascade over age = current_year - pub_year.
\* Faulty variant of the recency cascade: the two old-age tests are in the
\* order their deltas suggest, so the -5 branch is taken.
RecencyDelta_oldest_first(age) ==
    IF age <= 2 THEN 5
    ELSE IF age <= 5 THEN 2
    ELSE IF age >= 20 THEN -5
    ELSE IF age >= 10 THEN -2
    ELSE 0

RecencyDelta(age) ==
    IF age <= 2 THEN 5
    ELSE IF age <= 5 THEN 2
    ELSE IF age >= 10 THEN -2
    ELSE IF age >= 20 THEN -5
    ELSE 0

\* The date block: [exc, factors]. A value of 'issued' that is no mapping has
\* no .get: AttributeError, which the except clause does not name.
RecencyRule(csl_json, f, current_year) ==
    IF "issued" \notin DOMAIN csl_json THEN [exc |-> "none", factors |-> f]
    ELSE LET issued == csl_json["issued"]
         IN  CASE issued.shape = "not_mapping" -> Raised("AttributeError")
               [] issued.shape = "year_int" ->
                    [exc |-> "none",
                     factors |-> Add(f, "recency", RecencyDelta(current_year - issued.year))]
               [] OTHER -> [exc |-> "none", factors |-> f]

analyze_metadata_reliability(csl_json, factors, current_year) ==
    RecencyRule(csl_json,
                DoiRule(csl_json,
                PublisherRule(csl_json,
                AuthorRule(csl_json,
                SourceTypeRule(csl_json, factors)))),
                current_year)

medical_terms == <<<<"m","e","d","i","c","a","l">>, <<"h","e","a","l","t","h">>, <<"d","i","s","e","a","s","e">>, <<"t","r","e","a","t","m","e","n","t">>, <<"d","r","u","g">>>>

statistical_terms == <<<<"s","t","a","t","i","s","t","i","c","s">>, <<"d","a","t","a">>, <<"s","t","u","d","y">>, <<"r","e","s","e","a","r","c","h">>, <<"p","e","r","c","e","n","t">>>>

current_terms == <<<<"r","e","c","e","n","t">>, <<"c","u","r","r","e","n","t">>, <<"t","o","d","a","y">>, <<"2","0","2","3">>, <<"2","0","2","4">>, <<"2","0","2","5">>>>

MedicalRule(csl_json, context_lower, f) ==
    IF AnyIn(medical_terms, context_lower)
    THEN LET source_type == DictGet(csl_json, "type", <<>>)
         IN  IF source_type = <<"a","r","t","i","c","l","e","-","j","o","u","r","n","a","l">> THEN Add(f, "context_fit", 10)
             ELSE IF StrContains(source_type, <<"n","e","w","s">>) THEN Add(f, "context_fit", -5)
             ELSE f
    ELSE f

\* Faulty variant of the statistical rule: the webpage penalty is tested
\* before the journal-or-DOI bonus.
StatisticalRule_webpage_first(csl_json, context_lower, f) ==
    IF AnyIn(statistical_terms, context_lower)
    THEN IF DictGet(csl_json, "type", None) = <<"w","e","b","p","a","g","e">>
         THEN Add(f, "context_fit", -5)
         ELSE IF DictGet(csl_json, "type", None) = <<"a","r","t","i","c","l","e","-","j","o","u","r","n","a","l">>
                    \/ "DOI" \in DOMAIN csl_json
              THEN Add(f, "context_fit", 8)
              ELSE f
    ELSE f

StatisticalRule(csl_json, context_lower, f) ==
    IF AnyIn(statistical_terms, context_lower)
    THEN IF DictGet(csl_json, "type", None) = <<"a","r","t","i","c","l","e","-","j","o","u","r","n","a","l">> \/ "DOI" \in DOMAIN csl_json
         THEN Add(f, "context_fit", 8)
         ELSE IF DictGet(csl_json, "type", None) = <<"w","e","b","p","a","g","e">>
              THEN Add(f, "context_fit", -5)
              ELSE f
    ELSE f

\* The bare except swallows every failure of the date access.
CurrentEventsRule(csl_json, context_lower, f, current_year) ==
    IF /\ AnyIn(current_terms, context_lower)
       /\ "issued" \in DOMAIN csl_json
       /\ csl_json["issued"].shape = "year_int"
       /\ csl_json["issued"].year >= current_year - 1
    THEN Add(f, "context_fit", 8)
    ELSE f

analyze_context_fit(csl_json, context, factors, current_year) ==
    LET context_lower == StrLower(context)
    IN  CurrentEventsRule(csl_json, context_lower,
            StatisticalRule(csl_json, context_lower,
                MedicalRule(csl_json, context_lower, factors)),
            current_year)

\* [exc, factors]
calculate_reliability_factors(domain, csl_json, context, current_year) ==
    LET byDomain == analyze_domain_reliability(domain, ZeroFactors)
        byMeta   == IF DictTruthy(csl_json)
                    THEN analyze_metadata_reliability(csl_json, byDomain, current_year)
                    ELSE [exc |-> "none", factors |-> byDomain]
    IN  IF byMeta.exc /= "none" THEN byMeta
        ELSE IF Truthy(context)
             THEN [exc |-> "none",
                   factors |-> analyze_context_fit(
                                   IF DictTruthy(csl_json) THEN csl_json ELSE EmptyDict,
                                   context, byMeta.factors, current_year)]
             ELSE byMeta


-----------------------------------------------------------------------------
(* Aggregation                                                             *)
(*                                                                         *)
(* adjusted_score is an int up to 90 and the float 90 + (a - 90) * 0.3     *)
(* above it. It is kept in tenths, which hold 0.3 * n exactly; for every   *)
(* sum the factors can reach, int() of the IEEE double and the truncation  *)
(* of the exact tenths agree.                                              *)

\* sum(factors.values())
SumFactors(factors) ==
    factors["editorial_control"] + factors["independence"] + factors["fact_checking"]
        + factors["expertise"] + factors["transparency"] + factors["recency"]
        + factors["source_type_bonus"] + factors["context_fit"]

\* Faulty variant of apply_reliability_adjustments: the compression starts
\* at 100 instead of 90.
apply_reliability_adjustments_from_100(base_score, factors) ==
    LET adjusted == base_score + SumFactors(factors)
    IN  IF adjusted > 100 THEN 1000 + (adjusted - 100) * 3 ELSE adjusted * 10

\* The adjusted score, in tenths.
\* Faulty variant of apply_reliability_adjustments: above 90 only the
\* compressed excess is returned, the 90 it is added to is left out.
apply_reliability_adjustments_excess_only(base_score, factors) ==
    LET adjusted == base_score + SumFactors(factors)
    IN  IF adjusted > 90 THEN (adjusted - 90) * 3 ELSE adjusted * 10

apply_reliability_adjustments(base_score, factors) ==
    LET adjusted == base_score + SumFactors(factors)
    IN  IF adjusted > 90 THEN 900 + (adjusted - 90) * 3 ELSE adjusted * 10

\* int(x) of a value in tenths: truncation toward zero
IntOfTenths(x10) == IF x10 >= 0 THEN x10 \div 10 ELSE -((-x10) \div 10)

\* Faulty variant of SourceQuality: the truncated score is returned unclamped.
SourceQuality_unclamped(adjusted10) == IntOfTenths(adjusted10)

\* max(0, min(100, int(adjusted_score)))
SourceQuality(adjusted10) == Max(0, Min(100, IntOfTenths(adjusted10)))

-----------------------------------------------------------------------------
(* Recommendations                                                         *)

RecFindAlternative == "Find alternative sources - this source is not considered reliable"
RecContextDependent == "Review context-dependent reliability - may be suitable for some claims"
RecNotInDatabase == "Source not in RSP database - verify reliability independently"
RecLow == "Low reliability score - consider finding higher quality sources"
RecModerate == "Moderate reliability - acceptable for general claims"
RecHigh == "High reliability - excellent source for Wikipedia"
RecEditorial == "Limited editorial oversight - verify information independently"
RecIndependence == "May have conflicts of interest - consider independent sources"
RecExpertise == "Limited subject matter expertise - supplement with expert sources"
RecDated == "Source is dated - consider more recent information if available"

LabelRecommendation(rsp_info) ==
    LET rsp_label == StrLower(rsp_info.label)
    IN  IF rsp_label \in {<<"d","e","p","r","e","c","a","t","e","d">>, <<"b","l","a","c","k","l","i","s","t","e","d">>, <<"g","e","n","e","r","a","l","l","y"," ","u","n","r","e","l","i","a","b","l","e">>}
        THEN <<RecFindAlternative>>
        ELSE IF rsp_label = <<"c","o","n","t","e","x","t","-","d","e","p","e","n","d","e","n","t">> THEN <<RecContextDependent>>
        ELSE IF rsp_label = <<"u","n","k","n","o","w","n">> THEN <<RecNotInDatabase>>
        ELSE <<>>

\* Faulty variant of the score-tier rule: the gap between the moderate and
\* the high tier is closed, every score from 60 up is called high.
ScoreRecommendation_no_gap(score10) ==
    IF score10 < 400 THEN <<RecLow>>
    ELSE IF score10 < 600 THEN <<RecModerate>>
    ELSE <<RecHigh>>

\* Faulty variant of the score-tier rule: the high tier starts above 80.
ScoreRecommendation_above_80(score10) ==
    IF score10 < 400 THEN <<RecLow>>
    ELSE IF score10 < 600 THEN <<RecModerate>>
    ELSE IF score10 > 800 THEN <<RecHigh>>
    ELSE <<>>

\* score is the adjusted score in tenths
ScoreRecommendation(score10) ==
    IF score10 < 400 THEN <<RecLow>>
    ELSE IF score10 < 600 THEN <<RecModerate>>
    ELSE IF score10 >= 800 THEN <<RecHigh>>
    ELSE <<>>

FactorRecommendations(factors) ==
    (IF factors["editorial_control"] < -5 THEN <<RecEditorial>> ELSE <<>>)
        \o (IF factors["independence"] < -5 THEN <<RecIndependence>> ELSE <<>>)
        \o (IF factors["expertise"] < 0 THEN <<RecExpertise>> ELSE <<>>)
        \o (IF factors["recency"] < -3 THEN <<RecDated>> ELSE <<>>)

\* Faulty variant of generate_scoring_recommendations: the score-tier rule
\* runs before the label rule.
generate_scoring_recommendations_score_first(rsp_info, factors, score10) ==
    ScoreRecommendation(score10) \o LabelRecommendation(rsp_info)
        \o FactorRecommendations(factors)

generate_scoring_recommendations(rsp_info, factors, score10) ==
    LabelRecommendation(rsp_info) \o ScoreRecommendation(score10)
        \o FactorRecommendations(factors)

-----------------------------------------------------------------------------
(* POST /score/                                                            *)

\* Lines 41-47: the domain the request is scored under ('' or None when
\* nothing was extracted).
\* Faulty variant of the domain resolution: a domain the request names is
\* normalized like a host taken from a URL.
ResolveDomain_normalized(request) ==
    IF ~Truthy(request.domain) /\ Truthy(request.url)
    THEN HostOf(request.url)
    ELSE IF /\ ~Truthy(request.domain)
            /\ DictTruthy(request.csl_json)
            /\ "URL" \in DOMAIN request.csl_json
         THEN HostOf(request.csl_json["URL"])
         ELSE IF request.domain = None THEN None
         ELSE StrRemoveAll(StrLower(request.domain), <<"w","w","w",".">>)

ResolveDomain(request) ==
    IF ~Truthy(request.domain) /\ Truthy(request.url)
    THEN HostOf(request.url)
    ELSE IF /\ ~Truthy(request.domain)
            /\ DictTruthy(request.csl_json)
            /\ "URL" \in DOMAIN request.csl_json
         THEN HostOf(request.csl_json["URL"])
         ELSE request.domain

NoBody == [none |-> TRUE]

\* raise HTTPException(status_code, detail), as the client receives it
HttpError(status_code, detail) ==
    [status |-> status_code, detail |-> detail, body |-> NoBody]

Ok(body) == [status |-> 200, detail |-> "", body |-> body]

\* What the handler leaves behind besides the response: the locals the response
\* was built from, the exception its except clause logged, and the year
\* datetime.now() gave while it ran (0 for a handler that reads no clock).
Frame(domain, rsp_info, adjusted10, logged, current_year) ==
    [domain |-> domain, rsp_info |-> rsp_info, adjusted |-> adjusted10, logged |-> logged,
     year |-> current_year]

NoFrame == Frame(None, Raised("unset"), 0, "", 0)

\* except Exception: log it, raise HTTPException(500). HTTPException is an
\* Exception, so the 400 raised inside the try block arrives here as well.
Failed(domain, rsp_info, logged, current_year) ==
    [response |-> HttpError(500, "Source scoring failed"),
     frame    |-> Frame(domain, rsp_info, 0, logged, current_year)]

\* The whole handler: [response, frame].
score_source(request, cache, current_year) ==
    LET domain == ResolveDomain(request)
    IN  IF ~Truthy(domain)
        THEN Failed(domain, Raised("unset"), "400: No domain provided or extractable",
                    current_year)
        ELSE
        LET rsp_info == get_rsp_rating(domain, cache)
        IN  IF rsp_info.exc /= "none"
            THEN Failed(domain, rsp_info, rsp_info.exc, current_year)
            ELSE
            LET calc == calculate_reliability_factors(
                            domain, request.csl_json, request.context, current_year)
            IN  IF calc.exc /= "none"
                THEN Failed(domain, rsp_info, calc.exc, current_year)
                ELSE
                LET adjusted_score == apply_reliability_adjustments(
                                          rsp_info.base_score, calc.factors)
                    recommendations == generate_scoring_recommendations(
                                           rsp_info, calc.factors, adjusted_score)
                IN  [response |->
                        Ok([source_quality      |-> SourceQuality(adjusted_score),
                            rsp_label           |-> rsp_info.label,
                            rsp_notes           |-> rsp_info.notes,
                            reliability_factors |-> calc.factors,
                            recommendations     |-> recommendations]),
                     frame |-> Frame(domain, rsp_info, adjusted_score, "", current_year)]

-----------------------------------------------------------------------------
(* GET /score/rsp/{domain}                                                 *)

\* No try block: an exception of the lookup is the framework's 500.
get_rsp_info(domain, cache) ==
    LET rsp_info == get_rsp_rating(domain, cache)
    IN  IF rsp_info.exc /= "none"
        THEN [response |-> HttpError(500, "Internal Server Error"),
              frame    |-> Frame(domain, rsp_info, 0, "", 0)]
        ELSE [response |-> Ok([domain     |-> domain,
                               rsp_label  |-> rsp_info.label,
                               rsp_notes  |-> rsp_info.notes,
                               base_score |-> rsp_info.base_score]),
              frame    |-> Frame(domain, rsp_info, 0, "", 0)]


-----------------------------------------------------------------------------
(* The requests clients send                                               *)

MaxAuthors == 5
MaxAge == 21
MaxTicks == 1

\* datetime.now().year when the service starts
StartYear == 2025

DomainSamples ==
    {<<"n","y","t","i","m","e","s",".","c","o","m">>, <<"w","w","w",".","n","y","t","i","m","e","s",".","c","o","m">>, <<"N","Y","T","i","m","e","s",".","c","o","m">>, <<"b","b","c",".","c","o",".","u","k">>,
     <<"n","e","w","s",".","b","b","c",".","c","o",".","u","k">>, <<"e","x","a","m","p","l","e",".","c","o","m">>, <<"b","l","o","g",".","e","x","a","m","p","l","e",".","c","o","m">>, <<"a",".","b",".","e","x","a","m","p","l","e",".","c","o","m">>,
     <<"b",".","e","x","a","m","p","l","e",".","c","o","m">>, <<"m","e","d","i","u","m",".","c","o","m">>, <<"x",".","m","e","d","i","u","m",".","c","o","m">>, <<"p","u","b","m","e","d",".","g","o","v">>, <<"m","i","t",".","e","d","u">>, <<"s","n","a","p",".","o","r","g">>,
     <<"n","o","n","o","t","e","s",".","o","r","g">>, <<"s","u","b",".","n","o","n","o","t","e","s",".","o","r","g">>, <<"w","e","i","r","d",".","i","o">>, <<"b","l","o","g","s","p","a","m",".","i","n","f","o">>,
     <<"f","o","r","b","e","s",".","c","o","m">>, <<"t","a","b","l","o","i","d",".","c","o">>, <<"l","i","s","t","e","d",".","n","e","t">>, <<"n","o","w","h","e","r","e",".","n","e","t">>, <<"l","o","c","a","l","h","o","s","t">>}

UrlSamples ==
    {<<"h","t","t","p","s",":","/","/","w","w","w",".","n","y","t","i","m","e","s",".","c","o","m","/","2","0","2","4","/","w","o","r","l","d">>, <<"n","o","t","-","a","-","u","r","l">>,
     <<"H","T","T","P",":","/","/","W","W","W",".","E","x","a","m","p","l","e",".","C","O","M","?","q","=","1">>, <<"/","/","a","w","w","w",".","e","x","a","m","p","l","e",".","c","o","m","/","x","#","t","o","p">>}

ContextSamples ==
    {<<"a"," ","m","e","d","i","c","a","l"," ","t","r","e","a","t","m","e","n","t"," ","c","l","a","i","m">>, <<"R","e","s","e","a","r","c","h"," ","D","A","T","A"," ","o","n"," ","t","u","r","n","o","u","t">>,
     <<"r","e","c","e","n","t"," ","e","l","e","c","t","i","o","n"," ","r","e","s","u","l","t","s">>, <<"h","e","a","l","t","h"," ","s","t","a","t","i","s","t","i","c","s"," ","t","o","d","a","y">>, <<"a"," ","p","l","a","i","n"," ","c","l","a","i","m">>}

TypeSamples ==
    {<<"a","r","t","i","c","l","e","-","j","o","u","r","n","a","l">>, <<"b","o","o","k">>, <<"c","h","a","p","t","e","r">>, <<"a","r","t","i","c","l","e","-","n","e","w","s","p","a","p","e","r">>,
     <<"w","e","b","p","a","g","e">>, <<"p","o","s","t","-","w","e","b","l","o","g">>, <<"t","h","e","s","i","s">>}

PublisherSamples == {<<"O","x","f","o","r","d"," ","U","n","i","v","e","r","s","i","t","y"," ","P","r","e","s","s">>, <<"A","c","a","d","e","m","i","c"," ","P","r","e","s","s">>, <<"A","c","m","e"," ","M","e","d","i","a">>}

AuthorSamples ==
    {[kind |-> "list", len |-> n] : n \in 0..MaxAuthors} \cup {[kind |-> "str", len |-> 0]}

IssuedSamples ==
    {[shape |-> s, year |-> 0] :
        s \in {"not_mapping", "no_date_parts", "empty_outer", "empty_inner", "year_str"}}
      \cup {[shape |-> "year_int", year |-> StartYear - age] : age \in (-1)..MaxAge}

\* A csl_json dict holding the given keys; a field left out is passed as the
\* Absent value of its kind.
Absent == <<"Absent">>
AbsentAuthor == [kind |-> "absent", len |-> 0]
AbsentIssued == [shape |-> "absent", year |-> 0]

Csl(type, author, publisher, doi, issued, url) ==
    LET keys == (IF type = Absent THEN {} ELSE {"type"})
                  \cup (IF author = AbsentAuthor THEN {} ELSE {"author"})
                  \cup (IF publisher = Absent THEN {} ELSE {"publisher"})
                  \cup (IF doi = Absent THEN {} ELSE {"DOI"})
                  \cup (IF issued = AbsentIssued THEN {} ELSE {"issued"})
                  \cup (IF url = Absent THEN {} ELSE {"URL"})
    IN  [k \in keys |->
            CASE k = "type" -> type
              [] k = "author" -> author
              [] k = "publisher" -> publisher
              [] k = "DOI" -> doi
              [] k = "issued" -> issued
              [] k = "URL" -> url]

Request(domain, url, csl_json, context) ==
    [domain |-> domain, url |-> url, csl_json |-> csl_json, context |-> context]

\* Requests that differ in where the domain comes from.
DomainRequests ==
    {Request(d, u, c, None) :
        d \in {None, <<>>} \cup DomainSamples,
        u \in {None} \cup UrlSamples,
        c \in {NoCsl, EmptyDict,
               Csl(Absent, AbsentAuthor, Absent, Absent, AbsentIssued, <<"h","t","t","p","s",":","/","/","e","x","a","m","p","l","e",".","c","o","m","/","p">>),
               Csl(<<"w","e","b","p","a","g","e">>, AbsentAuthor, Absent, Absent, AbsentIssued, <<"n","o","-","h","o","s","t">>)}}

\* Requests that differ in citation type, DOI and context.
TypeRequests ==
    {Request(d, None, Csl(t, AbsentAuthor, Absent, doi, AbsentIssued, Absent), c) :
        d \in {<<"p","u","b","m","e","d",".","g","o","v">>, <<"x",".","m","e","d","i","u","m",".","c","o","m">>},
        t \in {Absent} \cup TypeSamples,
        doi \in {Absent, <<"1","0",".","1","0","0","0","/","1","8","2">>},
        c \in {None} \cup ContextSamples}

\* Requests that differ in authors and publisher.
AuthorRequests ==
    {Request(d, None, Csl(t, a, p, Absent, AbsentIssued, Absent), None) :
        d \in {<<"m","i","t",".","e","d","u">>, <<"b","l","o","g","s","p","a","m",".","i","n","f","o">>, <<"b","l","o","g",".","e","x","a","m","p","l","e",".","c","o","m">>},
        t \in {<<"b","o","o","k">>, <<"a","r","t","i","c","l","e","-","j","o","u","r","n","a","l">>},
        a \in {AbsentAuthor} \cup AuthorSamples,
        p \in {Absent} \cup PublisherSamples}

\* Requests that differ in the issue date.
IssuedRequests ==
    {Request(d, None, Csl(t, AbsentAuthor, Absent, Absent, i, Absent), c) :
        d \in {<<"n","y","t","i","m","e","s",".","c","o","m">>},
        t \in {<<"a","r","t","i","c","l","e","-","n","e","w","s","p","a","p","e","r">>},
        i \in IssuedSamples,
        c \in {None, <<"r","e","c","e","n","t"," ","e","l","e","c","t","i","o","n"," ","r","e","s","u","l","t","s">>, <<"h","e","a","l","t","h"," ","s","t","a","t","i","s","t","i","c","s"," ","t","o","d","a","y">>}}

ScoreRequests == DomainRequests \cup TypeRequests \cup AuthorRequests \cup IssuedRequests

-----------------------------------------------------------------------------
(* The service                                                             *)

Idle == [op |-> "none"]

NoResponse == [status |-> 0, detail |-> "", body |-> NoBody]

\* No earlier answer to the request in flight is being held for comparison.
NoEarlier == [response |-> NoResponse, year |-> 0]

\* No dependency has an entry: {}
NoDependencies == [name \in {} |-> [status |-> ""]]

\* GET /health is not running. pc is where health_check stands: "parsoid" and
\* "citoid" are its two awaits, "done" is after its return. probed holds what
\* each probe came back with, health_status the dict the handler fills.
NoHealth ==
    [pc |-> "idle",
     probed |-> [name \in {} |-> [raised |-> FALSE, status_code |-> 0, error |-> ""]],
     health_status |-> [service |-> "healthy", dependencies |-> NoDependencies],
     response |-> NoResponse]

Init ==
    /\ rsp_cache \in Caches
    /\ now_year = StartYear
    /\ inflight = Idle
    /\ response = NoResponse
    /\ frame = NoFrame
    /\ earlier = NoEarlier
    /\ health = NoHealth

\* A client posts a score request.
SubmitScore ==
    /\ inflight = Idle
    /\ \E request \in ScoreRequests : inflight' = [op |-> "score", request |-> request]
    /\ UNCHANGED <<rsp_cache, now_year, response, frame, earlier, health>>

\* A client asks for the RSP record of a domain.
SubmitLookup ==
    /\ inflight = Idle
    /\ \E domain \in DomainSamples : inflight' = [op |-> "rsp", domain |-> domain]
    /\ UNCHANGED <<rsp_cache, now_year, response, frame, earlier, health>>

\* Faulty variant of ScoreSource: the handler memoizes the rating it found
\* under the domain it looked up, in config.rsp_cache.
ScoreSource_memoizing ==
    /\ inflight.op = "score"
    /\ response = NoResponse
    /\ LET done == score_source(inflight.request, rsp_cache, now_year)
       IN  /\ response' = done.response
           /\ frame' = done.frame
           /\ rsp_cache' =
                  IF done.frame.rsp_info.exc = "none"
                  THEN [d \in DOMAIN rsp_cache \cup {done.frame.domain} |->
                           IF d = done.frame.domain
                           THEN [label |-> done.frame.rsp_info.label,
                                 notes |-> done.frame.rsp_info.notes]
                           ELSE rsp_cache[d]]
                  ELSE rsp_cache
    /\ UNCHANGED <<now_year, inflight, earlier, health>>

\* The handler of POST /score/ runs to completion.
ScoreSource ==
    /\ inflight.op = "score"
    /\ response = NoResponse
    /\ LET done == score_source(inflight.request, rsp_cache, now_year)
       IN  /\ response' = done.response
           /\ frame' = done.frame
    /\ UNCHANGED <<rsp_cache, now_year, inflight, earlier, health>>

\* The handler of GET /score/rsp/{domain} runs to completion.
GetRspInfo ==
    /\ inflight.op = "rsp"
    /\ response = NoResponse
    /\ LET done == get_rsp_info(inflight.domain, rsp_cache)
       IN  /\ response' = done.response
           /\ frame' = done.frame
    /\ UNCHANGED <<rsp_cache, now_year, inflight, earlier, health>>

\* The client takes the response.
Receive ==
    /\ response /= NoResponse
    /\ inflight' = Idle
    /\ response' = NoResponse
    /\ frame' = NoFrame
    /\ earlier' = NoEarlier
    /\ UNCHANGED <<rsp_cache, now_year, health>>

\* The client keeps the answer and sends the same request again.
Retry ==
    /\ inflight.op = "score"
    /\ response /= NoResponse
    /\ earlier = NoEarlier
    /\ earlier' = [response |-> response, year |-> frame.year]
    /\ response' = NoResponse
    /\ frame' = NoFrame
    /\ UNCHANGED <<rsp_cache, now_year, inflight, health>>

\* New Year: datetime.now().year moves on.
Tick ==
    /\ now_year < StartYear + MaxTicks
    /\ now_year' = now_year + 1
    /\ UNCHANGED <<rsp_cache, inflight, response, frame, earlier, health>>

Next ==
    \/ SubmitScore
    \/ SubmitLookup
    \/ ScoreSource
    \/ GetRspInfo
    \/ Retry
    \/ Receive
    \/ Tick

Spec == Init /\ [][Next]_vars


\* An administrative reload replaces the snapshot: one assignment of the
\* reference config.rsp_cache, on the event loop the handlers run on.
Reload ==
    /\ \E snapshot \in Snapshots \ {rsp_cache} : rsp_cache' = snapshot
    /\ UNCHANGED <<now_year, inflight, response, frame, earlier, health>>

\* The service with reloads of the database.
NextReload ==
    \/ SubmitScore
    \/ SubmitLookup
    \/ ScoreSource
    \/ GetRspInfo
    \/ Receive
    \/ Reload

SpecReload == Init /\ [][NextReload]_vars

-----------------------------------------------------------------------------
(* The analyzers called on their own                                       *)

MaxPrior == 2
MaxDelta == 40

\* Metadata dicts analyze_metadata_reliability is called with: the truthy
\* csl_json of the sample requests.
MetadataSamples ==
    {request.csl_json : request \in {r \in ScoreRequests : DictTruthy(r.csl_json)}}

\* Factor dicts as a caller can pass them: source_type_bonus and the other
\* seven factors at values around 0.
PriorFactors ==
    {[k \in FactorKeys |-> IF k = "source_type_bonus" THEN bonus ELSE other] :
        bonus \in (-MaxPrior)..MaxPrior, other \in (-MaxPrior)..MaxPrior}

\* Base scores and factor dicts apply_reliability_adjustments is called with.
BaseScoreSamples == {-5, 50, 85}

DeltaFactors ==
    {[k \in FactorKeys |->
         IF k = "editorial_control" THEN editorial_control
         ELSE IF k = "expertise" THEN expertise
         ELSE 0] :
        editorial_control \in (-MaxDelta)..MaxDelta, expertise \in {0, 46}}

\* What a call left behind: the value it returned or the dict it filled.
Returned(value) == [status |-> 0, detail |-> "", body |-> value]

\* analyze_metadata_reliability(csl_json, factors) is called; the dict it
\* modified in place is what the caller reads afterwards.
CallMetadata ==
    /\ inflight = Idle
    /\ \E csl_json \in MetadataSamples, factors \in PriorFactors :
          /\ inflight' = [op |-> "analyze_metadata_reliability",
                          csl_json |-> csl_json, factors |-> factors]
          /\ response' = Returned(analyze_metadata_reliability(csl_json, factors, now_year))
    /\ frame' = Frame(None, Raised("unset"), 0, "", now_year)
    /\ UNCHANGED <<rsp_cache, now_year, earlier, health>>

\* apply_reliability_adjustments(base_score, factors) is called and its value
\* turned into a quality as score_source does.
CallAdjust ==
    /\ inflight = Idle
    /\ \E base_score \in BaseScoreSamples, factors \in DeltaFactors :
          /\ inflight' = [op |-> "apply_reliability_adjustments",
                          base_score |-> base_score, factors |-> factors]
          /\ response' =
                Returned([adjusted |-> apply_reliability_adjustments(base_score, factors),
                          source_quality |->
                              SourceQuality(
                                  apply_reliability_adjustments(base_score, factors))])
    /\ frame' = NoFrame
    /\ UNCHANGED <<rsp_cache, now_year, earlier, health>>

\* The analyzers called on their own, beside score requests.
NextAnalyzers ==
    \/ CallMetadata
    \/ CallAdjust
    \/ SubmitScore
    \/ ScoreSource
    \/ Receive

SpecAnalyzers == Init /\ [][NextAnalyzers]_vars

-----------------------------------------------------------------------------
(* routers/render.py: the text functions                                   *)

\* What \s matches and what str.strip() removes
Whitespace == {" ", "\t", "\n", "\r", "\f"}

\* The length of the longest run s[i:i+n] whose characters are all inside
\* chars (inside = TRUE) or all outside it (inside = FALSE): a greedy
\* [chars]* or [^chars]* tried at i
Span(s, i, chars, inside) ==
    IF i > Len(s) THEN 0
    ELSE CHOOSE n \in 0..(Len(s) - i + 1) :
            /\ \A k \in i..(i + n - 1) : (s[k] \in chars) = inside
            /\ i + n > Len(s) \/ (s[i + n] \in chars) /= inside

\* s.strip(): s without the whitespace it starts with and ends with
StrStrip(s) ==
    LET Cut(lead, trail) ==
            IF lead = Len(s) THEN <<>> ELSE SubSeq(s, lead + 1, Len(s) - trail)
    IN  Cut(Span(s, 1, Whitespace, TRUE),
            CHOOSE n \in 0..Len(s) :
                /\ \A k \in (Len(s) - n + 1)..Len(s) : s[k] \in Whitespace
                /\ n = Len(s) \/ s[Len(s) - n] \notin Whitespace)

\* s.startswith(prefix)
StrStartsWith(s, prefix) == MatchesAt(s, prefix, 1)

\* s.split(sep) for a sep of any length
RECURSIVE StrSplitOn(_, _)
StrSplitOn(s, sep) ==
    LET Split(i) ==
            IF i = 0 THEN <<s>>
            ELSE <<SubSeq(s, 1, i - 1)>> \o StrSplitOn(StrFrom(s, i + Len(sep)), sep)
    IN  Split(StrFind(s, sep))

\* No match of a pattern at a position. A match is told by where it ends
\* (end is the position after its last character), the groups it captured
\* and the text re.sub() puts in its place.
NoMatch == [ok |-> FALSE, end |-> 0, level |-> 0, title |-> <<>>, repl |-> <<>>]

\* r'^(={2,6})\s*(.+?)\s*\1\s*$' tried at position i of s, with ^ and $ as
\* re.MULTILINE reads them (on a single line that is how re.match reads them
\* too). The regex engine tries the longest run of '=' first, then the longest
\* leading whitespace, then the shortest title; the whitespace after the title
\* and after the closing '=' is greedy, and \s takes newlines. A try is
\* <<n, a, t>>: n '=', a characters of leading whitespace, t of title.
HeaderMatch(s, i) ==
    LET AtLineEnd(e) == e = Len(s) + 1 \/ (e <= Len(s) /\ s[e] = "\n")
        Digit(n) == <<"0", "1", "2", "3", "4", "5", "6">>[n + 1]
        Trailed(n, title, end, trail) ==
            IF trail < 0 THEN NoMatch
            ELSE [ok |-> TRUE, end |-> end + trail, level |-> n, title |-> title,
                  repl |-> <<"<","h">> \o <<Digit(n)>> \o <<">">> \o title
                             \o <<"<","/","h">> \o <<Digit(n)>> \o <<">">>]
        LastLineEnd(end, blank) ==
            CHOOSE c \in (-1)..blank :
                /\ c = -1 \/ AtLineEnd(end + c)
                /\ \A d \in (c + 1)..blank : ~AtLineEnd(end + d)
        Closed(n, start, t, close) ==
            IF Span(s, close, {"="}, TRUE) >= n
            THEN Trailed(n, SubSeq(s, start, start + t - 1), close + n,
                         LastLineEnd(close + n, Span(s, close + n, Whitespace, TRUE)))
            ELSE NoMatch
        Try(n, a, t) ==
            Closed(n, i + n + a, t,
                   i + n + a + t + Span(s, i + n + a + t, Whitespace, TRUE))
        Tries ==
            UNION {UNION {{<<n, a, t>> :
                            t \in 1..Span(s, i + n + a, {"\n"}, FALSE)} :
                        a \in 0..Span(s, i + n, Whitespace, TRUE)} :
                   n \in 2..Min(6, Span(s, i, {"="}, TRUE))}
        Before(c, d) ==
            \/ c[1] > d[1]
            \/ c[1] = d[1] /\ c[2] > d[2]
            \/ c[1] = d[1] /\ c[2] = d[2] /\ c[3] <= d[3]
        Pick(c) == Try(c[1], c[2], c[3])
        Best(fits) ==
            IF fits = {} THEN NoMatch
            ELSE Pick(CHOOSE c \in fits : \A d \in fits : Before(c, d))
    IN  IF i = 1 \/ s[i - 1] = "\n"
        THEN Best({c \in Tries : Try(c[1], c[2], c[3]).ok})
        ELSE NoMatch

\* extract_section(wikitext, section_name): the lines from the header of the
\* section up to the next header of the same or a higher level, None when no
\* line is the header of the section.
extract_section(wikitext, section_name) ==
    LET Titled(section_match) ==
            /\ section_match.ok
            /\ StrLower(StrStrip(section_match.title)) = StrLower(section_name)
        IsHeader(line) ==
            /\ StrStartsWith(StrStrip(line), <<"=">>)
            /\ StrContains(StrLower(line), StrLower(section_name))
            /\ Titled(HeaderMatch(line, 1))
        Levelled(run, section_level) == run >= 2 /\ Min(6, run) <= section_level
        Ends(line, section_level) ==
            /\ StrStartsWith(line, <<"=">>)
            /\ Levelled(Span(line, 1, {"="}, TRUE), section_level)
        Cut(lines, section_start, section_end) ==
            StrJoin(SubSeq(lines, section_start, section_end - 1), "\n")
        Until(lines, section_start, ends) ==
            Cut(lines, section_start,
                CHOOSE k \in ends \cup {Len(lines) + 1} :
                    \A j \in ends \cup {Len(lines) + 1} : k <= j)
        Body(lines, section_start, section_level) ==
            Until(lines, section_start,
                  {k \in (section_start + 1)..Len(lines) :
                      Ends(StrStrip(lines[k]), section_level)})
        From(lines, section_start) ==
            Body(lines, section_start, HeaderMatch(lines[section_start], 1).level)
        Found(lines, headers) ==
            IF headers = {} THEN None
            ELSE From(lines, CHOOSE k \in headers : \A j \in headers : k <= j)
        Lines(lines) == Found(lines, {k \in 1..Len(lines) : IsHeader(lines[k])})
    IN  Lines(StrSplit(wikitext, "\n"))

\* r"'''(.*?)'''" and r"''(.*?)''" with re.DOTALL tried at position i: the
\* delimiter, the shortest text up to the next delimiter, the delimiter.
Delimited(s, i, delim, open, close) ==
    LET Closed(q) ==
            IF q > Len(s) THEN NoMatch
            ELSE [NoMatch EXCEPT !.ok = TRUE, !.end = q + Len(delim),
                     !.repl = open \o SubSeq(s, i + Len(delim), q - 1) \o close]
    IN  IF MatchesAt(s, delim, i)
        THEN Closed(CHOOSE q \in (i + Len(delim))..(Len(s) + 1) :
                        /\ q = Len(s) + 1 \/ MatchesAt(s, delim, q)
                        /\ \A r \in (i + Len(delim))..(q - 1) : ~MatchesAt(s, delim, r))
        ELSE NoMatch

\* r'\[\[([^\]|]+)(\|([^\]]+))?\]\]' tried at position i, replaced by
\* replace_internal_link: the display text when there is one, else the target.
\* bar is where the target ends.
InternalLink(s, i) ==
    LET Link(text, end) ==
            [NoMatch EXCEPT !.ok = TRUE, !.end = end,
                !.repl = <<"<","a"," ","h","r","e","f","=","\"","#","\""," ","c","l","a","s","s","=","\"","w","i","k","i","l","i","n","k","\"",">">> \o text \o <<"<","/","a",">">>]
        Shown(bar, display) ==
            IF MatchesAt(s, <<"|">>, bar) /\ display >= 1
                    /\ MatchesAt(s, <<"]","]">>, bar + 1 + display)
            THEN Link(SubSeq(s, bar + 1, bar + display), bar + 1 + display + 2)
            ELSE IF MatchesAt(s, <<"]","]">>, bar)
            THEN Link(SubSeq(s, i + 2, bar - 1), bar + 2)
            ELSE NoMatch
        Target(bar) ==
            IF bar = i + 2 THEN NoMatch
            ELSE Shown(bar, Span(s, bar + 1, {"]"}, FALSE))
    IN  IF MatchesAt(s, <<"[","[">>, i)
        THEN Target(i + 2 + Span(s, i + 2, {"]", "|"}, FALSE))
        ELSE NoMatch

\* r'\[([^\s]+)\s+([^\]]+)\]' tried at position i. gap is where the address
\* ends, blank the whitespace there, upto what lies before the next ']'. The
\* text of the link is what follows the whitespace; when only whitespace
\* follows the address the text is its last character.
ExternalLink(s, i) ==
    LET Text(gap, blank, upto) ==
            IF blank >= 1 /\ upto >= 2 /\ MatchesAt(s, <<"]">>, gap + upto)
            THEN [NoMatch EXCEPT !.ok = TRUE, !.end = gap + upto + 1,
                     !.repl = <<"<","a"," ","h","r","e","f","=","\"">> \o SubSeq(s, i + 1, gap - 1)
                                \o <<"\""," ","c","l","a","s","s","=","\"","e","x","t","e","r","n","a","l","\"",">">>
                                \o SubSeq(s, IF upto > blank THEN gap + blank
                                             ELSE gap + blank - 1,
                                          gap + upto - 1)
                                \o <<"<","/","a",">">>]
            ELSE NoMatch
        Address(gap) ==
            IF gap = i + 1 THEN NoMatch
            ELSE Text(gap, Span(s, gap, Whitespace, TRUE), Span(s, gap, {"]"}, FALSE))
    IN  IF MatchesAt(s, <<"[">>, i)
        THEN Address(i + 1 + Span(s, i + 1, Whitespace, FALSE))
        ELSE NoMatch

\* r'<ref[^>]*name\s*=\s*["\']([^"\']+)["\'][^>]*/?>' tried at position i:
\* [^>]* first takes as much as it can (x characters), so the last name= of
\* the tag counts
NamedRef(s, i) ==
    LET Quotes == {"\"", "'"}
        Named(quote, closing, end) ==
            IF /\ closing > quote + 1
               /\ closing <= Len(s)
               /\ s[closing] \in Quotes
               /\ MatchesAt(s, <<">">>, end)
            THEN [NoMatch EXCEPT !.ok = TRUE, !.end = end + 1,
                     !.repl = <<"<","s","u","p"," ","c","l","a","s","s","=","\"","r","e","f","e","r","e","n","c","e","\"",">","<","a"," ","h","r","e","f","=","\"","#","r","e","f","_">>
                                \o SubSeq(s, quote + 1, closing - 1) \o <<"\"",">","[">>
                                \o SubSeq(s, quote + 1, closing - 1) \o <<"]","<","/","a",">","<","/","s","u","p",">">>]
            ELSE NoMatch
        Closed(quote, closing) ==
            Named(quote, closing, closing + 1 + Span(s, closing + 1, {">"}, FALSE))
        Quoted(quote) ==
            IF quote <= Len(s) /\ s[quote] \in Quotes
            THEN Closed(quote, quote + 1 + Span(s, quote + 1, Quotes, FALSE))
            ELSE NoMatch
        Assigned(equals) ==
            IF MatchesAt(s, <<"=">>, equals)
            THEN Quoted(equals + 1 + Span(s, equals + 1, Whitespace, TRUE))
            ELSE NoMatch
        Try(x) ==
            IF MatchesAt(s, <<"n","a","m","e">>, i + 4 + x)
            THEN Assigned(i + 8 + x + Span(s, i + 8 + x, Whitespace, TRUE))
            ELSE NoMatch
        Pick(x) == IF x < 0 THEN NoMatch ELSE Try(x)
        Best(limit) ==
            Pick(CHOOSE x \in (-1)..limit :
                    /\ x = -1 \/ Try(x).ok
                    /\ \A y \in (x + 1)..limit : ~Try(y).ok)
    IN  IF MatchesAt(s, <<"<","r","e","f">>, i)
        THEN Best(Span(s, i + 4, {">"}, FALSE))
        ELSE NoMatch

\* r'<ref[^>]*>([^<]+)</ref>' tried at position i
InlineRef(s, i) ==
    LET Content(from, content) ==
            IF content >= 1 /\ MatchesAt(s, <<"<","/","r","e","f",">">>, from + content)
            THEN [NoMatch EXCEPT !.ok = TRUE, !.end = from + content + 6,
                     !.repl = <<"<","s","u","p"," ","c","l","a","s","s","=","\"","r","e","f","e","r","e","n","c","e","\"",">","<","a"," ","h","r","e","f","=","\"","#","r","e","f","_","i","n","l","i","n","e","\"",">","[","r","e","f","]","<","/","a",">","<","/","s","u","p",">">>]
            ELSE NoMatch
        Tag(open) ==
            IF MatchesAt(s, <<">">>, open)
            THEN Content(open + 1, Span(s, open + 1, {"<"}, FALSE))
            ELSE NoMatch
    IN  IF MatchesAt(s, <<"<","r","e","f">>, i)
        THEN Tag(i + 4 + Span(s, i + 4, {">"}, FALSE))
        ELSE NoMatch

\* The patterns of basic_wikitext_to_html, each tried at position i of s
MatchAt(pattern, s, i) ==
    CASE pattern = "bold" -> Delimited(s, i, <<"'","'","'">>, <<"<","s","t","r","o","n","g",">">>, <<"<","/","s","t","r","o","n","g",">">>)
      [] pattern = "italic" -> Delimited(s, i, <<"'","'">>, <<"<","e","m",">">>, <<"<","/","e","m",">">>)
      [] pattern = "header" -> HeaderMatch(s, i)
      [] pattern = "internal link" -> InternalLink(s, i)
      [] pattern = "external link" -> ExternalLink(s, i)
      [] pattern = "named ref" -> NamedRef(s, i)
      [] pattern = "inline ref" -> InlineRef(s, i)

\* re.sub(pattern, replacement, s) from position i on: the matches are taken
\* left to right in s and do not overlap. j is where the next match starts.
RECURSIVE ReSub(_, _, _)
ReSub(pattern, s, i) ==
    LET Replaced(j, m) == SubSeq(s, i, j - 1) \o m.repl \o ReSub(pattern, s, m.end)
        From(j) == IF j > Len(s) THEN SubSeq(s, i, Len(s))
                   ELSE Replaced(j, MatchAt(pattern, s, j))
    IN  From(CHOOSE j \in i..(Len(s) + 1) :
                /\ j = Len(s) + 1 \/ MatchAt(pattern, s, j).ok
                /\ \A k \in i..(j - 1) : ~MatchAt(pattern, s, k).ok)

\* The paragraph step: a block is wrapped in <p> unless it is blank or
\* starts with a header
Paragraph(p) ==
    LET Wrapped(stripped) ==
            IF stripped /= <<>> /\ ~StrStartsWith(stripped, <<"<","h">>)
            THEN <<"<","p",">">> \o stripped \o <<"<","/","p",">">>
            ELSE p
    IN  Wrapped(StrStrip(p))

\* basic_wikitext_to_html(wikitext): the conversions in the order of the code
basic_wikitext_to_html(wikitext) ==
    LET Paragraphs(paragraphs) ==
            StrJoin([k \in 1..Len(paragraphs) |-> Paragraph(paragraphs[k])], "\n")
        bold == ReSub("bold", wikitext, 1)
        italic == ReSub("italic", bold, 1)
        headers == ReSub("header", italic, 1)
        internal == ReSub("internal link", headers, 1)
        external == ReSub("external link", internal, 1)
        named == ReSub("named ref", external, 1)
        inline == ReSub("inline ref", named, 1)
    IN  <<"<","d","i","v"," ","c","l","a","s","s","=","\"","w","i","k","i","-","c","o","n","t","e","n","t","\"",">">>
            \o Paragraphs(StrSplitOn(inline, <<"\n","\n">>))
            \o <<"<","/","d","i","v",">">>


-----------------------------------------------------------------------------
(* routers/render.py: POST /render                                         *)

\* The most elements with DSR data that a Parsoid document of the model holds
MaxElements == 2

RenderWikitexts ==
    {<<>>,
     <<"'","'","'","B","o","l","d","'","'","'"," ","a","n","d"," ","'","'","i","t","a","l","i","c","'","'">>,
     <<"I","n","t","r","o","\n","\n","=","="," ","A"," ","=","=","\n","a","l","p","h","a","\n","\n","=","="," ","B"," ","=","=","\n","b","e","t","a">>,
     <<"=","="," ","A"," ","=","=","\n","x","\n","=","=","="," ","A","1"," ","=","=","=","\n","y","\n","=","="," ","B"," ","=","=","\n","z">>,
     <<"=","="," ","A"," ","=","=","\n","a","l","p","h","a">>,
     <<"[","[","P","|","s","]","]"," ","[","u"," ","t","]"," ","<","r","e","f",">","c","<","/","r","e","f",">">>}

RenderSections == {None, <<>>, <<"A">>, <<"a">>, <<"B">>, <<"A","1">>, <<"G","o","n","e">>}

\* RenderRequest: wikitext, section (None when left out), domain
RenderRequests ==
    {[wikitext |-> w, section |-> s, domain |-> <<"e","n",".","w","i","k","i","p","e","d","i","a",".","o","r","g">>] :
        w \in RenderWikitexts, s \in RenderSections}

\* dsr_map of a RenderResponse: None, or a dict told by its keys and by the
\* number of elements listed under 'elements'
DsrNone == [is_none |-> TRUE, keys |-> {}, elements |-> 0]

DsrMap(keys, elements) == [is_none |-> FALSE, keys |-> keys, elements |-> elements]

\* The await of client.post() has not come back.
NoOutcome == [kind |-> "pending", status_code |-> 0, text |-> <<>>, bs4 |-> "", elements |-> 0]

\* Parsoid is outside the repository and its answer is an input. The call
\* raises, or answers with a status and a text. A document answered with 200
\* holds the wikitext it was sent between its tags, and elements of it carry
\* DSR data. bs4 is what extract_dsr_mapping meets in it: the import of bs4
\* fails ("missing"), the parser raises ("raises") or the document is parsed.
ParsoidOutcomes(wikitext) ==
    {[NoOutcome EXCEPT !.kind = "raises"]}
    \cup {[NoOutcome EXCEPT !.kind = "answered", !.status_code = code,
                            !.text = <<"e","r","r","o","r">>] : code \in {404, 500}}
    \cup {[kind |-> "answered", status_code |-> 200,
           text |-> <<"<","s","e","c","t","i","o","n",">">> \o wikitext \o <<"<","/","s","e","c","t","i","o","n",">">>,
           bs4 |-> b, elements |-> IF b = "parsed" THEN n ELSE 0] :
            b \in {"missing", "raises", "parsed"}, n \in 0..MaxElements}

\* Lines 38-44: the wikitext that is sent to Parsoid. The section is taken
\* when one is asked for, is found and is not empty.
ScopedWikitext(request) ==
    LET Chosen(section_wikitext) ==
            IF Truthy(section_wikitext) THEN section_wikitext ELSE request.wikitext
    IN  IF Truthy(request.section)
        THEN Chosen(extract_section(request.wikitext, request.section))
        ELSE request.wikitext

\* extract_dsr_mapping(html) once the document is at hand: {} when the parser
\* raises, else the elements with DSR data and the document
extract_dsr_mapping(outcome) ==
    IF outcome.bs4 = "raises" THEN DsrMap({}, 0)
    ELSE DsrMap({"elements", "html"}, outcome.elements)

\* add_claim_spans(html, dsr_map) returns html as it is
add_claim_spans(html, dsr_map) == html

\* Faulty variant of RenderAnswer: an answer of Parsoid other than 200 is
\* passed on as a bad gateway instead of being replaced by the fallback.
RenderAnswer_bad_gateway(request, wikitext, outcome) ==
    IF outcome.kind = "raises" \/ (outcome.status_code = 200 /\ outcome.bs4 = "missing")
    THEN Ok([html |-> basic_wikitext_to_html(request.wikitext), dsr_map |-> DsrNone])
    ELSE IF outcome.status_code /= 200
    THEN HttpError(502, "Parsoid failed")
    ELSE Ok([html |-> add_claim_spans(outcome.text, extract_dsr_mapping(outcome)),
             dsr_map |-> extract_dsr_mapping(outcome)])

\* Lines 57-88 of render_wikitext, from the return of client.post() on.
\* wikitext is the local of that name. Whatever is raised inside the try, the
\* failure of the call and of the import of bs4 included, ends in the except
\* clause, which converts request.wikitext.
RenderAnswer(request, wikitext, outcome) ==
    IF outcome.kind = "raises" \/ (outcome.status_code = 200 /\ outcome.bs4 = "missing")
    THEN Ok([html |-> basic_wikitext_to_html(request.wikitext), dsr_map |-> DsrNone])
    ELSE IF outcome.status_code /= 200
    THEN Ok([html |-> basic_wikitext_to_html(wikitext), dsr_map |-> DsrNone])
    ELSE Ok([html |-> add_claim_spans(outcome.text, extract_dsr_mapping(outcome)),
             dsr_map |-> extract_dsr_mapping(outcome)])

\* A client posts a render request.
SubmitRender ==
    /\ inflight = Idle
    /\ \E request \in RenderRequests :
          inflight' = [op |-> "render", request |-> request, pc |-> "start",
                       wikitext |-> <<>>, outcome |-> NoOutcome]
    /\ UNCHANGED <<rsp_cache, now_year, response, frame, earlier, health>>

\* render_wikitext runs up to its await: it chooses the wikitext and posts it
\* to Parsoid.
PostToParsoid ==
    /\ inflight.op = "render"
    /\ inflight.pc = "start"
    /\ inflight' = [inflight EXCEPT !.pc = "parsoid",
                                    !.wikitext = ScopedWikitext(inflight.request)]
    /\ UNCHANGED <<rsp_cache, now_year, response, frame, earlier, health>>

\* The call to Parsoid comes back and render_wikitext runs to its return.
ParsoidReturns ==
    /\ inflight.op = "render"
    /\ inflight.pc = "parsoid"
    /\ \E outcome \in ParsoidOutcomes(inflight.wikitext) :
          /\ inflight' = [inflight EXCEPT !.pc = "done", !.outcome = outcome]
          /\ response' = RenderAnswer(inflight.request, inflight.wikitext, outcome)
    /\ UNCHANGED <<rsp_cache, now_year, frame, earlier, health>>

NextRender ==
    \/ SubmitRender
    \/ PostToParsoid
    \/ ParsoidReturns
    \/ Receive

SpecRender == Init /\ [][NextRender]_vars


-----------------------------------------------------------------------------
(* GET /health                                                             *)

parsoid_endpoint == "http://localhost:8142"
citoid_endpoint == "http://localhost:1970"

\* What `await client.get(endpoint + "/")` can come back with: an exception
\* (connection refused, timeout after 5.0 s) or a response with a status code.
ProbeOutcomes ==
    {[raised |-> TRUE, status_code |-> 0, error |-> e] :
        e \in {"All connection attempts failed", "timed out"}}
      \cup {[raised |-> FALSE, status_code |-> c, error |-> ""] : c \in {200, 204, 404, 500}}

\* The entry a probe leaves in health_status["dependencies"].
DependencyEntry(outcome, endpoint) ==
    IF outcome.raised
    THEN [status |-> "unreachable", endpoint |-> endpoint, error |-> outcome.error]
    ELSE [status |-> IF outcome.status_code = 200 THEN "healthy" ELSE "unhealthy",
          endpoint |-> endpoint]

\* health_status["dependencies"][name] = entry
SetDependency(health_status, name, entry) ==
    [health_status EXCEPT
        !.dependencies = [n \in DOMAIN health_status.dependencies \cup {name} |->
                             IF n = name THEN entry ELSE health_status.dependencies[n]]]

\* probed with the outcome of the probe of name
Probed(probed, name, outcome) ==
    [n \in DOMAIN probed \cup {name} |-> IF n = name THEN outcome ELSE probed[n]]

\* GET /health arrives: the handler runs up to its first await.
SubmitHealth ==
    /\ health.pc = "idle"
    /\ health' = [NoHealth EXCEPT !.pc = "parsoid"]
    /\ UNCHANGED <<rsp_cache, now_year, inflight, response, frame, earlier>>

\* Faulty variant of ProbeParsoid: the probe is not inside a try block, an
\* exception of it ends the handler.
ProbeParsoid_uncaught ==
    /\ health.pc = "parsoid"
    /\ \E outcome \in ProbeOutcomes :
          health' =
              IF outcome.raised
              THEN [health EXCEPT
                       !.pc = "done",
                       !.probed = Probed(health.probed, "parsoid", outcome),
                       !.response = HttpError(500, "Internal Server Error")]
              ELSE [health EXCEPT
                       !.pc = "citoid",
                       !.probed = Probed(health.probed, "parsoid", outcome),
                       !.health_status =
                           SetDependency(health.health_status, "parsoid",
                                         DependencyEntry(outcome, parsoid_endpoint))]
    /\ UNCHANGED <<rsp_cache, now_year, inflight, response, frame, earlier>>

\* The Parsoid probe comes back; the handler records it and runs up to its
\* second await.
ProbeParsoid ==
    /\ health.pc = "parsoid"
    /\ \E outcome \in ProbeOutcomes :
          health' = [health EXCEPT
                        !.pc = "citoid",
                        !.probed = Probed(health.probed, "parsoid", outcome),
                        !.health_status =
                            SetDependency(health.health_status, "parsoid",
                                          DependencyEntry(outcome, parsoid_endpoint))]
    /\ UNCHANGED <<rsp_cache, now_year, inflight, response, frame, earlier>>

\* The Citoid probe comes back; the handler records it and returns
\* health_status.
ProbeCitoid ==
    /\ health.pc = "citoid"
    /\ \E outcome \in ProbeOutcomes :
          LET health_status == SetDependency(health.health_status, "citoid",
                                             DependencyEntry(outcome, citoid_endpoint))
          IN  health' = [health EXCEPT
                            !.pc = "done",
                            !.probed = Probed(health.probed, "citoid", outcome),
                            !.health_status = health_status,
                            !.response = Ok(health_status)]
    /\ UNCHANGED <<rsp_cache, now_year, inflight, response, frame, earlier>>

\* The client takes the health report.
ReceiveHealth ==
    /\ health.pc = "done"
    /\ health' = NoHealth
    /\ UNCHANGED <<rsp_cache, now_year, inflight, response, frame, earlier>>

\* The service with health checks running beside lookups.
NextHealth ==
    \/ SubmitHealth
    \/ ProbeParsoid
    \/ ProbeCitoid
    \/ ReceiveHealth
    \/ SubmitLookup
    \/ GetRspInfo
    \/ Receive

SpecHealth == Init /\ [][NextHealth]_vars

-----------------------------------------------------------------------------
(* Properties                                                              *)

\* A score request has been answered / answered with a result.
ScoreAnswered == inflight.op = "score" /\ response /= NoResponse
Scored == ScoreAnswered /\ response.status = 200

\* A bare-domain lookup has been answered.
LookupAnswered == inflight.op = "rsp" /\ response /= NoResponse

\* get_rsp_rating has run, on frame.domain, in the request just answered.
RatingRan == response /= NoResponse /\ frame.rsp_info.exc /= "unset"

\* The places where a suffix of d starts that is a key of the cache: 0 for d
\* itself, i for the text after a dot at position i.
KeyCuts(d) ==
    {i \in 0..Len(d) : (i = 0 \/ d[i] = ".") /\ StrFrom(d, i + 1) \in DOMAIN rsp_cache}

FirstCut(d) == CHOOSE i \in KeyCuts(d) : \A j \in KeyCuts(d) : i <= j

\* C1: every result of a score request carries a quality that is an integer
\* from 0 to 100.
C1_QualityInRange == Scored => response.body.source_quality \in 0..100

\* C1 witness: a result whose adjusted score lay above 100 and one step of the
\* clamp brought back.
C1_Witness == Scored /\ frame.adjusted > 1000 /\ response.body.source_quality = 100

\* The raw sum the result was aggregated from: base score plus the eight deltas.
RawSum == frame.rsp_info.base_score + SumFactors(response.body.reliability_factors)

\* C2: the quality is the raw sum a, kept when a <= 90 and compressed to
\* 90 + (a - 90) * 0.3 above, truncated toward zero and clamped to [0, 100].
C2_QualityFormula ==
    Scored =>
        LET a == RawSum
            q == response.body.source_quality
        IN  IF a <= 90
            THEN q = (IF a < 0 THEN 0 ELSE a)
            ELSE \E t \in 90..(90 + a) :
                    /\ 10 * t <= 900 + 3 * (a - 90)
                    /\ 900 + 3 * (a - 90) < 10 * (t + 1)
                    /\ q = (IF t > 100 THEN 100 ELSE t)

\* C2 witness: base 85 with +23 of factors, a = 108, compressed 95.4, quality 95.
C2_Witness ==
    /\ Scored
    /\ frame.rsp_info.base_score = 85
    /\ RawSum = 108
    /\ response.body.source_quality = 95

\* C3: a domain that is no key and has no suffix that is a key is rated
\* 'unknown' with the notes 'Not found in RSP database' and base score 50, on
\* both surfaces.
C3_UnknownWhenAbsent ==
    (RatingRan /\ KeyCuts(frame.domain) = {}) =>
        /\ frame.rsp_info.exc = "none"
        /\ frame.rsp_info.label = <<"u","n","k","n","o","w","n">>
        /\ frame.rsp_info.notes = <<"N","o","t"," ","f","o","u","n","d"," ","i","n"," ","R","S","P"," ","d","a","t","a","b","a","s","e">>
        /\ frame.rsp_info.base_score = 50
        /\ response.status = 200 => response.body.rsp_label = <<"u","n","k","n","o","w","n">>
        /\ LookupAnswered => response.body.base_score = 50

\* C3 witness: a result for a dotted domain that a non-empty cache does not hold.
C3_Witness ==
    /\ Scored
    /\ rsp_cache /= EmptyCache
    /\ KeyCuts(frame.domain) = {}
    /\ Len(StrSplit(frame.domain, ".")) >= 2
    /\ response.body.rsp_label = <<"u","n","k","n","o","w","n">>

\* C4: an ancestor match returns the ancestor's label, its table score minus 5
\* and its notes followed by " (parent domain)"; an exact match returns the
\* record's own notes and unreduced score.
C4_AncestorPenalty ==
    (RatingRan /\ KeyCuts(frame.domain) /= {}) =>
        LET entry == rsp_cache[StrFrom(frame.domain, FirstCut(frame.domain) + 1)]
        IN  /\ frame.rsp_info.exc = "none"
            /\ frame.rsp_info.label = entry["label"]
            /\ IF FirstCut(frame.domain) = 0
               THEN /\ frame.rsp_info.base_score = rsp_label_to_score(entry["label"])
                    /\ frame.rsp_info.notes = DictGet(entry, "notes", None)
               ELSE /\ frame.rsp_info.base_score = rsp_label_to_score(entry["label"]) - 5
                    /\ frame.rsp_info.notes =
                          DictGet(entry, "notes", <<>>) \o <<" ","(","p","a","r","e","n","t"," ","d","o","m","a","i","n",")">>

\* C5: the record found is that of the first key among the domain and its
\* suffixes taken longest first: the exact record before any ancestor, the
\* longest ancestor before the shorter ones.
C5_FirstKeyWins ==
    RatingRan =>
        LET d == frame.domain
        IN  /\ frame.rsp_info.exc = "none" /\ KeyCuts(d) /= {}
                => frame.rsp_info.label = rsp_cache[StrFrom(d, FirstCut(d) + 1)]["label"]
            /\ frame.rsp_info.exc /= "none"
                => /\ KeyCuts(d) /= {}
                   /\ FirstCut(d) > 0
                   /\ "notes" \notin DOMAIN rsp_cache[StrFrom(d, FirstCut(d) + 1)]

\* C5 witness: a domain with two ancestors in the cache, answered from the
\* longer one.
C5_Witness ==
    /\ RatingRan
    /\ frame.rsp_info.exc = "none"
    /\ Cardinality(KeyCuts(frame.domain)) >= 2
    /\ 0 \notin KeyCuts(frame.domain)
    /\ frame.rsp_info.label = <<"u","n","r","e","l","i","a","b","l","e">>

\* The domain as the request names it, and its normal form: lowercase, a
\* leading "www." stripped.
NamedDomain == IF inflight.op = "rsp" THEN inflight.domain ELSE inflight.request.domain

Normalized(d) ==
    LET low == StrLower(d)
    IN  IF MatchesAt(low, <<"w","w","w",".">>, 1) THEN StrFrom(low, 5) ELSE low

\* C6: a domain whose normal form is a key is answered with that key's own
\* label, notes and unreduced base score, however it is spelled, on both
\* surfaces.
C6_NormalizedLookup ==
    (RatingRan /\ Truthy(NamedDomain) /\ Normalized(NamedDomain) \in DOMAIN rsp_cache) =>
        LET entry == rsp_cache[Normalized(NamedDomain)]
        IN  /\ frame.rsp_info.exc = "none"
            /\ frame.rsp_info.label = entry["label"]
            /\ frame.rsp_info.notes = DictGet(entry, "notes", None)
            /\ frame.rsp_info.base_score = rsp_label_to_score(entry["label"])

\* C7: an exact match gets the base score the fixed table gives its label read
\* without regard to case, 50 for any other label text, and never fails.
C7_LabelTable ==
    (RatingRan /\ frame.domain \in DOMAIN rsp_cache) =>
        LET label == StrLower(rsp_cache[frame.domain]["label"])
        IN  /\ frame.rsp_info.exc = "none"
            /\ frame.rsp_info.base_score =
                  CASE label = <<"g","e","n","e","r","a","l","l","y"," ","r","e","l","i","a","b","l","e">> -> 85
                    [] label = <<"r","e","l","i","a","b","l","e">> -> 80
                    [] label = <<"m","i","x","e","d">> -> 60
                    [] label = <<"g","e","n","e","r","a","l","l","y"," ","u","n","r","e","l","i","a","b","l","e">> -> 35
                    [] label = <<"u","n","r","e","l","i","a","b","l","e">> -> 25
                    [] label = <<"d","e","p","r","e","c","a","t","e","d">> -> 15
                    [] label = <<"b","l","a","c","k","l","i","s","t","e","d">> -> 0
                    [] label = <<"c","o","n","t","e","x","t","-","d","e","p","e","n","d","e","n","t">> -> 65
                    [] label = <<"u","n","k","n","o","w","n">> -> 50
                    [] OTHER -> 50

\* C7 witness: a label stored in mixed case, scored as its lowercase form.
C7_Witness ==
    /\ RatingRan
    /\ frame.domain \in DOMAIN rsp_cache
    /\ rsp_cache[frame.domain]["label"] = <<"G","e","n","e","r","a","l","l","y"," ","R","e","l","i","a","b","l","e">>
    /\ frame.rsp_info.base_score = 85

\* The domain a request yields: `domain`, else the host of `url`, else the host
\* of the metadata URL; '' when none yields one.
HostOrEmpty(url) == IF Truthy(url) THEN HostOf(url) ELSE <<>>

DerivableDomain(request) ==
    IF Truthy(request.domain) THEN request.domain
    ELSE IF Truthy(HostOrEmpty(request.url)) THEN HostOf(request.url)
    ELSE IF DictTruthy(request.csl_json) /\ "URL" \in DOMAIN request.csl_json
         THEN HostOrEmpty(request.csl_json["URL"])
         ELSE <<>>

MissingDomainLogged == frame.logged = "400: No domain provided or extractable"

\* C8: a score request is scored under the domain it yields, and is rejected
\* for a missing domain only when it yields none.
C8_DomainDerivation ==
    ScoreAnswered =>
        IF Truthy(DerivableDomain(inflight.request))
        THEN ~MissingDomainLogged /\ frame.domain = DerivableDomain(inflight.request)
        ELSE MissingDomainLogged /\ response.status /= 200

\* C9: a score request that yields no domain is answered with a client error
\* (4xx) and no result.
C9_MissingDomainIsClientError ==
    (ScoreAnswered /\ ~Truthy(DerivableDomain(inflight.request))) =>
        /\ response.status \in 400..499
        /\ response.body = NoBody

\* The place of an advisory in the fixed order; 0 for any other text.
AdvisoryRank(rec) ==
    CASE rec \in {RecFindAlternative, RecContextDependent, RecNotInDatabase} -> 1
      [] rec \in {RecLow, RecModerate, RecHigh} -> 2
      [] rec = RecEditorial -> 3
      [] rec = RecIndependence -> 4
      [] rec = RecExpertise -> 5
      [] rec = RecDated -> 6
      [] OTHER -> 0

\* C10: a recommendation list runs in the fixed order label, score tier,
\* editorial_control, independence, expertise, recency, with at most one
\* advisory of each kind.
C10_AdvisoryOrder ==
    Scored =>
        LET recs == response.body.recommendations
        IN  /\ \A i \in DOMAIN recs : AdvisoryRank(recs[i]) > 0
            /\ \A i, j \in DOMAIN recs :
                  i < j => AdvisoryRank(recs[i]) < AdvisoryRank(recs[j])

\* C10 witness: a list holding a label, a score-tier and a factor advisory.
C10_Witness ==
    /\ Scored
    /\ response.body.recommendations = <<RecFindAlternative, RecLow, RecEditorial>>

\* The labels that have an advisory of their own.
AdvisoryLabels ==
    {<<"d","e","p","r","e","c","a","t","e","d">>, <<"b","l","a","c","k","l","i","s","t","e","d">>, <<"g","e","n","e","r","a","l","l","y"," ","u","n","r","e","l","i","a","b","l","e">>, <<"c","o","n","t","e","x","t","-","d","e","p","e","n","d","e","n","t">>,
     <<"u","n","k","n","o","w","n">>}

\* rec is among the advisories of the result just returned.
Advised(rec) ==
    \E i \in DOMAIN response.body.recommendations : response.body.recommendations[i] = rec

\* C11: a result whose quality is in [60,80) and whose label is none of
\* deprecated, blacklisted, generally unreliable, context-dependent, unknown
\* carries no label advisory and no score-tier advisory: only the
\* factor-threshold advisories can appear.
C11_RecommendationGap ==
    (/\ Scored
     /\ response.body.source_quality \in 60..79
     /\ StrLower(response.body.rsp_label) \notin AdvisoryLabels)
        => \A i \in DOMAIN response.body.recommendations :
               AdvisoryRank(response.body.recommendations[i]) \in 3..6

\* C11 witness: a result in the gap whose only advisory is a factor-threshold
\* one.
C11_Witness ==
    /\ Scored
    /\ response.body.source_quality \in 60..79
    /\ StrLower(response.body.rsp_label) \notin AdvisoryLabels
    /\ response.body.recommendations = <<RecEditorial>>

\* C12: the score-tier advisory of a result agrees with the quality of the same
\* result: low reliability iff quality < 40, moderate iff 40 <= quality < 60,
\* high reliability iff quality >= 80.
C12_TierAgreesWithQuality ==
    Scored =>
        LET quality == response.body.source_quality
        IN  /\ Advised(RecLow) <=> quality < 40
            /\ Advised(RecModerate) <=> (quality >= 40 /\ quality < 60)
            /\ Advised(RecHigh) <=> quality >= 80

\* C12 witness: a result whose adjusted score had a fraction that the
\* truncation dropped, with the high-reliability advisory.
C12_Witness ==
    /\ Scored
    /\ frame.adjusted % 10 /= 0
    /\ frame.adjusted \div 10 = response.body.source_quality
    /\ Advised(RecHigh)

\* The request in flight carries an issue date whose year is an integer.
IssuedYearInt ==
    /\ inflight.op = "score"
    /\ "issued" \in DOMAIN inflight.request.csl_json
    /\ inflight.request.csl_json["issued"].shape = "year_int"

\* current_year - issue_year, current_year being the year the handler read.
IssuedAge == frame.year - inflight.request.csl_json["issued"].year

\* C13: with an integer issue year, recency is +5 for age <= 2, +2 for age
\* 3..5, 0 for age 6..9 and -2 for age >= 10; for age >= 20 it is -2, never -5.
C13_RecencyByAge ==
    (Scored /\ IssuedYearInt) =>
        LET recency == response.body.reliability_factors["recency"]
        IN  /\ IssuedAge <= 2 => recency = 5
            /\ IssuedAge \in 3..5 => recency = 2
            /\ IssuedAge \in 6..9 => recency = 0
            /\ IssuedAge >= 10 => recency = -2
            /\ IssuedAge >= 20 => recency = -2 /\ recency /= -5

\* C13 witness: a source issued twenty or more years before the handling year
\* has been scored with recency -2.
C13_Witness ==
    /\ Scored
    /\ IssuedYearInt
    /\ IssuedAge >= 20
    /\ response.body.reliability_factors["recency"] = -2

\* The request in flight names nytimes.com, has no metadata and no context,
\* and the database rates nytimes.com 'generally reliable'.
NytimesScenario ==
    /\ inflight.op = "score"
    /\ inflight.request.domain = <<"n","y","t","i","m","e","s",".","c","o","m">>
    /\ inflight.request.csl_json = NoCsl
    /\ inflight.request.context = None
    /\ <<"n","y","t","i","m","e","s",".","c","o","m">> \in DOMAIN rsp_cache
    /\ rsp_cache[<<"n","y","t","i","m","e","s",".","c","o","m">>].label = <<"g","e","n","e","r","a","l","l","y"," ","r","e","l","i","a","b","l","e">>

\* C14: scoring nytimes.com, rated 'generally reliable', with no metadata and
\* no context gives editorial_control 10, fact_checking 8, independence 5, every
\* other factor 0, quality 95, label 'generally reliable' and exactly the
\* high-reliability advisory.
C14_NytimesEndToEnd ==
    (ScoreAnswered /\ NytimesScenario) =>
        /\ response.status = 200
        /\ response.body.reliability_factors =
               [k \in FactorKeys |->
                   CASE k = "editorial_control" -> 10
                     [] k = "fact_checking" -> 8
                     [] k = "independence" -> 5
                     [] OTHER -> 0]
        /\ response.body.source_quality = 95
        /\ response.body.rsp_label = <<"g","e","n","e","r","a","l","l","y"," ","r","e","l","i","a","b","l","e">>
        /\ response.body.recommendations = <<RecHigh>>

\* C14 witness: the scenario has been scored.
C14_Witness == Scored /\ NytimesScenario /\ response.body.source_quality = 95

\* The request in flight carries an issue date that is malformed: no mapping,
\* no date-parts, empty date-parts, or a year that is no integer.
IssuedMalformed ==
    /\ inflight.op = "score"
    /\ "issued" \in DOMAIN inflight.request.csl_json
    /\ inflight.request.csl_json["issued"].shape /= "year_int"

\* The request in flight with the issue date taken out of its metadata.
WithoutIssued ==
    [inflight.request EXCEPT
        !.csl_json = [k \in DOMAIN inflight.request.csl_json \ {"issued"} |->
                         inflight.request.csl_json[k]]]

\* C15: whatever the shape of a malformed issue date, the request is answered
\* with a result, recency is 0 and the rest of the result is what the request
\* without the issue date gets, unless the lookup of the domain itself fails.
C15_MalformedIssuedSkipped ==
    (ScoreAnswered /\ IssuedMalformed /\ frame.rsp_info.exc = "none") =>
        /\ response.status = 200
        /\ response.body.reliability_factors["recency"] = 0
        /\ response = score_source(WithoutIssued, rsp_cache, frame.year).response

\* C17: no step of the service, whether it serves a score request or a
\* lookup, answers or rejects it, changes the reliability database: it stays
\* the snapshot loaded at startup.
C17_DatabaseNeverWritten == [][rsp_cache' = rsp_cache]_vars

\* C17 witness: a domain that is no key of a loaded database has been rated,
\* and the database still has no record of it.
C17_Witness ==
    /\ ScoreAnswered
    /\ frame.rsp_info.exc = "none"
    /\ rsp_cache /= EmptyCache
    /\ frame.domain \notin DOMAIN rsp_cache

\* quality is what the aggregation makes of the raw sum a: a itself up to 90,
\* 90 + (a - 90) * 0.3 above, truncated and clamped to [0, 100].
QualityOf(a, quality) ==
    IF a <= 90
    THEN quality = (IF a < 0 THEN 0 ELSE a)
    ELSE \E t \in 90..(90 + a) :
            /\ 10 * t <= 900 + 3 * (a - 90)
            /\ 900 + 3 * (a - 90) < 10 * (t + 1)
            /\ quality = (IF t > 100 THEN 100 ELSE t)

\* C19: the lookup of a domain returns the label and notes that score returns
\* for any request carrying that domain, and the base score that score's
\* quality is aggregated from; its answer holds nothing an analyzer computes.
C19_LookupSubsetOfScore ==
    LookupAnswered =>
        /\ response.status = 200 =>
               DOMAIN response.body = {"domain", "rsp_label", "rsp_notes", "base_score"}
        /\ \A request \in ScoreRequests :
               LET scored == score_source(request, rsp_cache, now_year).response
               IN  (request.domain = inflight.domain /\ scored.status = 200) =>
                       /\ response.status = 200
                       /\ response.body.rsp_label = scored.body.rsp_label
                       /\ response.body.rsp_notes = scored.body.rsp_notes
                       /\ QualityOf(response.body.base_score
                                        + SumFactors(scored.body.reliability_factors),
                                    scored.body.source_quality)

\* C19 witness: a lookup answered from an ancestor's record, for a domain that
\* score requests carry too.
C19_Witness ==
    /\ LookupAnswered
    /\ response.status = 200
    /\ inflight.domain \notin DOMAIN rsp_cache
    /\ response.body.rsp_label /= <<"u","n","k","n","o","w","n">>
    /\ \E request \in ScoreRequests : request.domain = inflight.domain

\* The request in flight has been answered a second time.
AnsweredTwice == ScoreAnswered /\ earlier /= NoEarlier

RatedFrom(snapshot) ==
    LET d == frame.domain
        info == frame.rsp_info
        cuts == {i \in 0..Len(d) :
                    (i = 0 \/ d[i] = ".") /\ StrFrom(d, i + 1) \in DOMAIN snapshot}
    IN  IF cuts = {}
        THEN /\ info.exc = "none"
             /\ info.label = <<"u","n","k","n","o","w","n">>
             /\ info.notes = <<"N","o","t"," ","f","o","u","n","d"," ","i","n"," ","R","S","P"," ","d","a","t","a","b","a","s","e">>
             /\ info.base_score = 50
        ELSE LET first == CHOOSE i \in cuts : \A j \in cuts : i <= j
                 entry == snapshot[StrFrom(d, first + 1)]
             IN  IF first > 0 /\ "notes" \notin DOMAIN entry
                 THEN info.exc /= "none"
                 ELSE /\ info.exc = "none"
                      /\ info.label = entry["label"]
                      /\ info.notes =
                            (IF first > 0 THEN entry["notes"] \o <<" ","(","p","a","r","e","n","t"," ","d","o","m","a","i","n",")">>
                             ELSE IF "notes" \in DOMAIN entry THEN entry["notes"]
                             ELSE None)
                      /\ info.base_score =
                            rsp_label_to_score(entry["label"]) - (IF first > 0 THEN 5 ELSE 0)

ReportedAs(outcome) ==
    IF outcome.raised THEN "unreachable"
    ELSE IF outcome.status_code = 200 THEN "healthy"
    ELSE "unhealthy"

\* C20: the health check answers 200 with an entry for parsoid and one for
\* citoid: 'unreachable' for a probe that raised, 'unhealthy' for an answer
\* other than 200, 'healthy' for 200; whatever the Parsoid probe did, the
\* Citoid probe ran and is reported.
C20_HealthReportsBoth ==
    health.pc = "done" =>
        /\ health.response.status = 200
        /\ DOMAIN health.probed = {"parsoid", "citoid"}
        /\ DOMAIN health.response.body.dependencies = {"parsoid", "citoid"}
        /\ \A name \in {"parsoid", "citoid"} :
               health.response.body.dependencies[name].status
                   = ReportedAs(health.probed[name])

\* C20 witness: the Parsoid probe raised, the Citoid probe ran and got 200,
\* and the report says unreachable and healthy.
C20_Witness ==
    /\ health.pc = "done"
    /\ health.probed["parsoid"].raised
    /\ health.probed["citoid"].status_code = 200
    /\ health.response.body.dependencies["parsoid"].status = "unreachable"
    /\ health.response.body.dependencies["citoid"].status = "healthy"

\* A result for a request without metadata and without context: its factors
\* are what the domain rules made of frame.domain.
ScoredByDomainOnly ==
    /\ Scored
    /\ ~DictTruthy(inflight.request.csl_json)
    /\ ~Truthy(inflight.request.context)

\* The deltas of one domain rule, 0 when the rule does not match.
RuleDeltas(matches, editorial_control, independence, fact_checking, expertise, transparency) ==
    [k \in FactorKeys |->
        IF ~matches THEN 0
        ELSE CASE k = "editorial_control" -> editorial_control
               [] k = "independence" -> independence
               [] k = "fact_checking" -> fact_checking
               [] k = "expertise" -> expertise
               [] k = "transparency" -> transparency
               [] OTHER -> 0]

\* The sum of the deltas of the six domain rules for the lower-cased domain d,
\* given whether d matches the three fixed lists.
DomainRuleSum(d, news, publisher, social) ==
    LET academic   == RuleDeltas(\E m \in {<<".","e","d","u">>, <<".","a","c",".">>, <<"u","n","i","v","e","r","s","i","t","y">>, <<"c","o","l","l","e","g","e">>} :
                                     StrContains(d, m), 15, 0, 10, 10, 0)
        government == RuleDeltas(StrEndsWith(d, <<".","g","o","v">>) \/ StrContains(d, <<".","g","o","v",".">>),
                                 10, 0, 0, 5, 10)
        majorNews  == RuleDeltas(news, 10, 5, 8, 0, 0)
        publishers == RuleDeltas(publisher, 15, 0, 10, 15, 0)
        socials    == RuleDeltas(social, -15, -5, -10, 0, 0)
        blogs      == RuleDeltas(StrContains(d, <<"b","l","o","g">>) \/ StrContains(d, <<"p","e","r","s","o","n","a","l">>),
                                 -8, 0, -5, 0, 0)
    IN  [k \in FactorKeys |->
            academic[k] + government[k] + majorNews[k] + publishers[k] + socials[k]
                + blogs[k]]

\* C22: every one of the six domain rules is evaluated on every domain, and
\* the factors are the sum of the deltas of the rules that match; a factor no
\* matching rule names is 0, and a domain matching no rule leaves all eight 0.
C22_DomainRulesAdditive ==
    ScoredByDomainOnly =>
        LET d == StrLower(frame.domain)
        IN  response.body.reliability_factors =
                DomainRuleSum(d, AnyIn(major_news, d), AnyIn(academic_publishers, d),
                              AnyIn(social_platforms, d))

\* C22 witness: pubmed.gov, which the .gov rule and the academic-publisher
\* rule both match, has editorial_control 25, expertise 20, fact_checking 10
\* and transparency 10.
C22_Witness ==
    /\ ScoredByDomainOnly
    /\ frame.domain = <<"p","u","b","m","e","d",".","g","o","v">>
    /\ response.body.reliability_factors["editorial_control"] = 25
    /\ response.body.reliability_factors["expertise"] = 20
    /\ response.body.reliability_factors["fact_checking"] = 10
    /\ response.body.reliability_factors["transparency"] = 10
    /\ response.body.reliability_factors["independence"] = 0

\* d is an entry of the list or a subdomain of one.
MatchesEntry(entries, d) ==
    \E i \in DOMAIN entries : d = entries[i] \/ StrEndsWith(d, <<".">> \o entries[i])

\* C23: the major-news, academic-publisher and social-platform deltas are
\* applied exactly to the domains that are an entry of the respective list or
\* a subdomain of one, and to no other domain.
C23_ListRulesMatchDomains ==
    ScoredByDomainOnly =>
        LET d == StrLower(frame.domain)
        IN  response.body.reliability_factors =
                DomainRuleSum(d, MatchesEntry(major_news, d),
                              MatchesEntry(academic_publishers, d),
                              MatchesEntry(social_platforms, d))

\* The record the rating of frame.domain was taken from has no notes.
RatedFromNotelessRecord ==
    /\ RatingRan
    /\ KeyCuts(frame.domain) /= {}
    /\ "notes" \notin DOMAIN rsp_cache[StrFrom(frame.domain, FirstCut(frame.domain) + 1)]

\* C26: for a record without notes, lookup and score complete without error:
\* on an exact match with the record's label and no notes, on an ancestor
\* match with the record's label and its base score reduced by 5.
C26_NotesOptional ==
    RatedFromNotelessRecord =>
        LET entry == rsp_cache[StrFrom(frame.domain, FirstCut(frame.domain) + 1)]
        IN  /\ response.status = 200
            /\ response.body.rsp_label = entry["label"]
            /\ frame.rsp_info.base_score =
                   rsp_label_to_score(entry["label"])
                       - (IF FirstCut(frame.domain) > 0 THEN 5 ELSE 0)
            /\ FirstCut(frame.domain) = 0 => response.body.rsp_notes = None

\* C27: in every result expertise >= 0, independence is -5, 0 or 5 and recency
\* is -2, 0, 2 or 5; so the advisories on independence, expertise and recency
\* never appear, and of the factor-threshold advisories only the one on
\* editorial_control does.
C27_FactorRanges ==
    Scored =>
        /\ response.body.reliability_factors["expertise"] >= 0
        /\ response.body.reliability_factors["independence"] \in {-5, 0, 5}
        /\ response.body.reliability_factors["recency"] \in {-2, 0, 2, 5}
        /\ ~Advised(RecIndependence)
        /\ ~Advised(RecExpertise)
        /\ ~Advised(RecDated)
        /\ \A i \in DOMAIN response.body.recommendations :
               AdvisoryRank(response.body.recommendations[i]) \in {1, 2, 3}

\* C27 witness: a result with the lowest independence there is, and with the
\* editorial_control advisory.
C27_Witness ==
    /\ Scored
    /\ response.body.reliability_factors["independence"] = -5
    /\ Advised(RecEditorial)

\* C29: the base score a lookup returns, for an exact match, an ancestor match
\* or no match, is an integer from 0 to 100.
C29_BaseScoreInRange ==
    (LookupAnswered /\ response.status = 200) => response.body.base_score \in 0..100

\* The lower-cased context of the request in flight, empty without one.
ContextLower ==
    IF Truthy(inflight.request.context) THEN StrLower(inflight.request.context) ELSE <<>>

\* The metadata type of the request in flight, empty without one.
MetadataType ==
    IF DictTruthy(inflight.request.csl_json) /\ "type" \in DOMAIN inflight.request.csl_json
    THEN inflight.request.csl_json["type"]
    ELSE <<>>

\* The metadata of the request in flight holds a DOI.
HasDoi ==
    DictTruthy(inflight.request.csl_json) /\ "DOI" \in DOMAIN inflight.request.csl_json

\* The contributions of the medical, the statistical and the current-events
\* rule to context_fit.
MedicalFit ==
    IF ~AnyIn(medical_terms, ContextLower) THEN 0
    ELSE IF MetadataType = <<"a","r","t","i","c","l","e","-","j","o","u","r","n","a","l">> THEN 10
    ELSE IF StrContains(MetadataType, <<"n","e","w","s">>) THEN -5
    ELSE 0

StatisticalFit ==
    IF ~AnyIn(statistical_terms, ContextLower) THEN 0
    ELSE IF MetadataType = <<"a","r","t","i","c","l","e","-","j","o","u","r","n","a","l">> \/ HasDoi THEN 8
    ELSE IF MetadataType = <<"w","e","b","p","a","g","e">> THEN -5
    ELSE 0

CurrentFit ==
    IF /\ AnyIn(current_terms, ContextLower)
       /\ IssuedYearInt
       /\ inflight.request.csl_json["issued"].year >= frame.year - 1
    THEN 8
    ELSE 0

\* C25: context_fit is the sum of what the three context rules contribute:
\* medical +10 for a journal article, else -5 for a type containing 'news';
\* statistical +8 for a journal article or a DOI, else -5 for a webpage;
\* current events +8 for an issue year >= current_year - 1. It is 0 without a
\* context, and 0 with a context but without metadata.
C25_ContextFitSum ==
    Scored =>
        /\ response.body.reliability_factors["context_fit"]
               = MedicalFit + StatisticalFit + CurrentFit
        /\ ~Truthy(inflight.request.context)
               => response.body.reliability_factors["context_fit"] = 0
        /\ ~DictTruthy(inflight.request.csl_json)
               => response.body.reliability_factors["context_fit"] = 0

\* C25 witness: a webpage with a DOI, cited for a statistical claim, has
\* context_fit +8.
C25_Witness ==
    /\ Scored
    /\ MetadataType = <<"w","e","b","p","a","g","e">>
    /\ HasDoi
    /\ AnyIn(statistical_terms, ContextLower)
    /\ ~AnyIn(medical_terms, ContextLower)
    /\ response.body.reliability_factors["context_fit"] = 8

\* analyze_metadata_reliability has been called on its own and has returned.
MetadataAnalyzed ==
    /\ inflight.op = "analyze_metadata_reliability"
    /\ response /= NoResponse
    /\ response.body.exc = "none"

\* The source-type table.
TypeBonus(type) ==
    CASE type = <<"a","r","t","i","c","l","e","-","j","o","u","r","n","a","l">> -> 15
      [] type = <<"b","o","o","k">> -> 10
      [] type = <<"c","h","a","p","t","e","r">> -> 8
      [] type = <<"a","r","t","i","c","l","e","-","n","e","w","s","p","a","p","e","r">> -> 5
      [] type = <<"w","e","b","p","a","g","e">> -> -5
      [] type = <<"p","o","s","t","-","w","e","b","l","o","g">> -> -10
      [] OTHER -> 0

\* C24: analyze_metadata_reliability sets source_type_bonus to the table value
\* of the metadata type whatever the factor held before, and changes every
\* other factor by a delta added to what it held before; in every result
\* source_type_bonus is one of 15, 10, 8, 5, 0, -5, -10, and 0 without metadata.
C24_SourceTypeBonusSet ==
    /\ MetadataAnalyzed =>
           LET csl_json == inflight.csl_json
               before == inflight.factors
               after == response.body.factors
               fromZero == analyze_metadata_reliability(
                               csl_json, [k \in FactorKeys |-> 0], frame.year).factors
           IN  /\ after["source_type_bonus"] =
                      TypeBonus(IF "type" \in DOMAIN csl_json THEN csl_json["type"] ELSE <<>>)
               /\ \A k \in FactorKeys \ {"source_type_bonus"} :
                      after[k] = before[k] + fromZero[k]
    /\ Scored =>
           /\ response.body.reliability_factors["source_type_bonus"]
                  \in {15, 10, 8, 5, 0, -5, -10}
           /\ ~DictTruthy(inflight.request.csl_json)
                  => response.body.reliability_factors["source_type_bonus"] = 0

\* C24 witness: called with a dict whose source_type_bonus and expertise were
\* not 0, for a book with authors, the analyzer left source_type_bonus at 10
\* and raised expertise from what it was.
C24_Witness ==
    /\ MetadataAnalyzed
    /\ inflight.factors["source_type_bonus"] /= 0
    /\ inflight.factors["expertise"] /= 0
    /\ "type" \in DOMAIN inflight.csl_json
    /\ inflight.csl_json["type"] = <<"b","o","o","k">>
    /\ response.body.factors["source_type_bonus"] = 10
    /\ response.body.factors["expertise"] > inflight.factors["expertise"]

\* apply_reliability_adjustments has been called on its own and has returned.
Adjusted == inflight.op = "apply_reliability_adjustments" /\ response /= NoResponse

\* The quality the aggregation gives base_score and factors.
AggregatedQuality(base_score, factors) ==
    SourceQuality(apply_reliability_adjustments(base_score, factors))

\* C28: the aggregation is monotone: of two inputs, the one with the smaller
\* raw sum (base score plus the eight factors) never gets the higher quality.
C28_AggregationMonotone ==
    Adjusted =>
        \A base_score \in BaseScoreSamples, factors \in DeltaFactors :
            LET r1 == inflight.base_score + SumFactors(inflight.factors)
                r2 == base_score + SumFactors(factors)
            IN  /\ r1 <= r2
                       => response.body.source_quality
                              <= AggregatedQuality(base_score, factors)
                /\ r2 <= r1
                       => AggregatedQuality(base_score, factors)
                              <= response.body.source_quality

\* C28 witness: a raw sum above the knee at 90 whose compressed score was
\* truncated, with a quality between 90 and 100.
C28_Witness ==
    /\ Adjusted
    /\ inflight.base_score + SumFactors(inflight.factors) > 90
    /\ response.body.adjusted % 10 /= 0
    /\ response.body.source_quality \in 91..99

\* render_wikitext has returned and the response is on its way.
RenderAnswered == inflight.op = "render" /\ response /= NoResponse

\* The call to Parsoid raised, or Parsoid answered with a status other than 200.
ParsoidFailed ==
    \/ inflight.outcome.kind = "raises"
    \/ inflight.outcome.kind = "answered" /\ inflight.outcome.status_code /= 200

\* html is a fallback conversion inside the wiki-content div.
InWikiContentDiv(html) ==
    /\ StrStartsWith(html, <<"<","d","i","v"," ","c","l","a","s","s","=","\"","w","i","k","i","-","c","o","n","t","e","n","t","\"",">">>)
    /\ StrEndsWith(html, <<"<","/","d","i","v",">">>)

\* C21: render_wikitext never fails for a well-formed request. When the call
\* to Parsoid raises or is answered with a status other than 200 the response
\* is a success whose html is the fallback conversion of the wikitext inside
\* the wiki-content div and whose dsr_map is null: the empty wikitext gives
\* the empty div, bold and italic markup gives <strong> and <em>. A response
\* with a DSR map carries the HTML of a 200 answer of Parsoid.
C21_RenderNeverFails ==
    RenderAnswered =>
        /\ response.status = 200
        /\ ParsoidFailed =>
              /\ response.body.dsr_map = DsrNone
              /\ InWikiContentDiv(response.body.html)
              /\ response.body.html \in
                    {basic_wikitext_to_html(inflight.request.wikitext),
                     basic_wikitext_to_html(inflight.wikitext)}
              /\ inflight.request.wikitext = <<>>
                    => response.body.html = <<"<","d","i","v"," ","c","l","a","s","s","=","\"","w","i","k","i","-","c","o","n","t","e","n","t","\"",">","<","/","d","i","v",">">>
              /\ inflight.request.wikitext = <<"'","'","'","B","o","l","d","'","'","'"," ","a","n","d"," ","'","'","i","t","a","l","i","c","'","'">>
                    => /\ StrContains(response.body.html, <<"<","s","t","r","o","n","g",">","B","o","l","d","<","/","s","t","r","o","n","g",">">>)
                       /\ StrContains(response.body.html, <<"<","e","m",">","i","t","a","l","i","c","<","/","e","m",">">>)
        /\ ~response.body.dsr_map.is_none =>
              /\ inflight.outcome.kind = "answered"
              /\ inflight.outcome.status_code = 200
              /\ response.body.html = inflight.outcome.text

\* C21 witness: the call to Parsoid raised for the wikitext with bold and
\* italic markup, and the response is a success with the converted paragraph
\* in the div and no DSR map.
C21_Witness ==
    /\ RenderAnswered
    /\ inflight.outcome.kind = "raises"
    /\ inflight.request.wikitext = <<"'","'","'","B","o","l","d","'","'","'"," ","a","n","d"," ","'","'","i","t","a","l","i","c","'","'">>
    /\ response.status = 200
    /\ response.body.dsr_map = DsrNone
    /\ response.body.html =
          <<"<","d","i","v"," ","c","l","a","s","s","=","\"","w","i","k","i","-","c","o","n","t","e","n","t","\"",">","<","p",">","<","s","t","r","o","n","g",">","B","o","l","d","<","/","s","t","r","o","n","g",">"," ","a","n","d"," ","<","e","m",">","i","t","a","l","i","c","<","/","e","m",">","<","/","p",">","<","/","d","i","v",">">>

\* The request names a section and extract_section finds it.
SectionFound ==
    /\ Truthy(inflight.request.section)
    /\ extract_section(inflight.request.wikitext, inflight.request.section) /= None

\* The response was produced from text and from nothing else: text is what
\* was posted to Parsoid, and the html is Parsoid's document for it or, on a
\* fallback, its conversion.
ProducedFrom(text) ==
    /\ inflight.wikitext = text
    /\ IF response.body.dsr_map.is_none
       THEN response.body.html = basic_wikitext_to_html(text)
       ELSE response.body.html = inflight.outcome.text

\* C30: when the request names a section that is found, the response is
\* produced from the text of that section only, whether Parsoid answered 200,
\* answered another status or the call raised; otherwise it is produced from
\* the full wikitext.
C30_SectionScopesEveryPath ==
    RenderAnswered =>
        IF SectionFound
        THEN ProducedFrom(extract_section(inflight.request.wikitext,
                                          inflight.request.section))
        ELSE ProducedFrom(inflight.request.wikitext)

=============================================================================
